---- MODULE Spec2Model ----
(***************************************************************************)
(* A model of the lightweight vector database: the HNSW proximity graph   *)
(* (hnsw.h), its VectorStorage, and the Database facade with soft delete, *)
(* update, rebuild and persistence (database.h).                          *)
(*                                                                         *)
(* Numbers.  Vector components are small integers and the dimension is 1, *)
(* so every float the code computes (a squared difference, a product, a   *)
(* norm, a cosine) is an integer that float arithmetic represents         *)
(* exactly; distances are therefore integers here.                        *)
(* Ids are 0-based as in the code; TLA+ sequences are 1-based, so node i  *)
(* is nodes[i + 1] and layer l of a node is neighbors[l + 1].             *)
(* The scalar quantizer (sq.h) is the field sq_ of the index: the one      *)
(* ScalarQuantizer object the Database owns and the HNSW and its           *)
(* VectorStorage point to.  A distance through the quantizer is kept       *)
(* multiplied by 255 * 255, which makes it an integer; it is only ever     *)
(* compared with other distances through the quantizer.                    *)
(***************************************************************************)
EXTENDS Integers, Sequences, FiniteSets, TLC

VARIABLES hnsw_, read_only_, file, ret

vars == <<hnsw_, read_only_, file, ret>>

-----------------------------------------------------------------------------
(* Bounds of the model *)

\* the most nodes an index holds (inserts are disabled beyond it)
MaxNodes == 3
\* the greatest layer random_level() draws
MaxLayer == 1
\* the construction parameters the Database is built with
ParamM == 2
ParamEfConstruction == 3
ParamEfSearch == 2

-----------------------------------------------------------------------------
(* Inputs *)

Metrics == {"L2", "COSINE", "IP"}

\* components of the vectors callers pass
Vals == 0 .. 2
Vecs == {<<v>> : v \in Vals}
\* a vector whose length differs from the dimension
BadVec == <<1, 1>>
\* a query vector shorter than the dimension: no component at all
ShortVec == <<>>

\* strings are sequences of character codes
TypeKey == <<116, 121, 112, 101>>
StrA == <<97>>
StrB == <<98>>
EmptyMeta == [k \in {} |-> <<>>]
MetaA == [k \in {TypeKey} |-> StrA]
MetaB == [k \in {TypeKey} |-> StrB]
Metas == {MetaA, MetaB}

\* a FilterFunc: nullptr, or the predicate  meta["type"] == value
NoFilter == [kind |-> "nullptr"]
TypeIs(v) == [kind |-> "type_eq", value |-> v]
Filters == {NoFilter, TypeIs(StrA)}

Layers == 0 .. MaxLayer
\* ids callers pass to delete_vector / update_vector: existing or not
Ids == 0 .. (MaxNodes - 1)

-----------------------------------------------------------------------------
(* Distance kernels, hnsw.h 352-387 *)

RECURSIVE inner_product(_, _, _)
inner_product(a, b, i) ==
    IF i > Len(a) THEN 0 ELSE a[i] * b[i] + inner_product(a, b, i + 1)

RECURSIVE SumSqDiff(_, _, _)
SumSqDiff(a, b, i) ==
    IF i > Len(a) THEN 0
    ELSE (a[i] - b[i]) * (a[i] - b[i]) + SumSqDiff(a, b, i + 1)

\* std::sqrt of a perfect square (every norm is one when Dim = 1)
Sqrt(n) == CHOOSE r \in 0 .. n : r * r = n

calculate_l2_distance(a, b) == SumSqDiff(a, b, 1)

calculate_cosine_distance(a, b) ==
    LET dot_product == inner_product(a, b, 1)
        norm_a == Sqrt(inner_product(a, a, 1))
        norm_b == Sqrt(inner_product(b, b, 1))
    IN  IF norm_a = 0 \/ norm_b = 0 THEN 1
        ELSE 1 - (dot_product \div (norm_a * norm_b))

calculate_inner_product_distance(a, b) == 0 - inner_product(a, b, 1)

calculate_distance_vec(metric, a, b) ==
    CASE metric = "L2" -> calculate_l2_distance(a, b)
      [] metric = "COSINE" -> calculate_cosine_distance(a, b)
      [] metric = "IP" -> calculate_inner_product_distance(a, b)

-----------------------------------------------------------------------------
(* ScalarQuantizer, sq.h *)

\* what static_cast<uint8_t> makes of a float outside 0..255: undefined
\* behaviour, which a build resolves by truncating to the low byte or by
\* saturating
Uint8Casts == {"wrap", "saturate"}

\* sq_ == nullptr
NoQuantizer ==
    [attached |-> FALSE, original_dim_ |-> 0, mins_ |-> <<>>, maxs_ |-> <<>>,
     uint8_cast |-> "wrap"]

\* ScalarQuantizer(original_dim): no bounds yet
NewQuantizer(original_dim, cast) ==
    [attached |-> TRUE, original_dim_ |-> original_dim, mins_ |-> <<>>,
     maxs_ |-> <<>>, uint8_cast |-> cast]

is_trained(sq) == sq.mins_ # <<>>

\* sq_ && sq_->is_trained()
Quantizes(sq) == sq.attached /\ is_trained(sq)

\* the least / greatest i-th component of the vectors from the n-th on
RECURSIVE MinOver(_, _, _, _)
MinOver(training_data, i, n, m) ==
    IF n > Len(training_data) THEN m
    ELSE MinOver(training_data, i, n + 1,
                 IF training_data[n][i] < m THEN training_data[n][i] ELSE m)

RECURSIVE MaxOver(_, _, _, _)
MaxOver(training_data, i, n, m) ==
    IF n > Len(training_data) THEN m
    ELSE MaxOver(training_data, i, n + 1,
                 IF training_data[n][i] > m THEN training_data[n][i] ELSE m)

RECURSIVE TrainedMins(_, _, _)
TrainedMins(training_data, dim, i) ==
    IF i > dim THEN <<>>
    ELSE <<MinOver(training_data, i, 1, training_data[1][i])>>
             \o TrainedMins(training_data, dim, i + 1)

RECURSIVE TrainedMaxs(_, _, _)
TrainedMaxs(training_data, dim, i) ==
    IF i > dim THEN <<>>
    ELSE <<MaxOver(training_data, i, 1, training_data[1][i])>>
             \o TrainedMaxs(training_data, dim, i + 1)

\* ScalarQuantizer::train
train(sq, training_data) ==
    IF training_data = <<>> THEN sq
    ELSE [sq EXCEPT !.mins_ = TrainedMins(training_data, sq.original_dim_, 1),
                    !.maxs_ = TrainedMaxs(training_data, sq.original_dim_, 1)]

\* std::round(num / den): to the nearest integer, halves away from zero
RoundDiv(num, den) ==
    LET n == IF den < 0 THEN 0 - num ELSE num
        d == IF den < 0 THEN 0 - den ELSE den
    IN  IF n >= 0 THEN (2 * n + d) \div (2 * d)
        ELSE 0 - ((2 * (0 - n) + d) \div (2 * d))

\* static_cast<uint8_t>(r)
CastUint8(cast, r) ==
    IF r >= 0 /\ r <= 255 THEN r
    ELSE IF cast = "wrap" THEN r % 256
    ELSE IF r < 0 THEN 0 ELSE 255

\* ScalarQuantizer::encode of a trained quantizer, from component i on
RECURSIVE encode_from(_, _, _)
encode_from(sq, vector, i) ==
    IF i > sq.original_dim_ THEN <<>>
    ELSE LET range == sq.maxs_[i] - sq.mins_[i]
             code == IF range = 0 THEN 0
                     ELSE CastUint8(sq.uint8_cast,
                                    RoundDiv(255 * (vector[i] - sq.mins_[i]),
                                             range))
         IN  <<code>> \o encode_from(sq, vector, i + 1)

encode(sq, vector) == encode_from(sq, vector, 1)

\* 255 * ScalarQuantizer::decode, from component i on:
\* 255 * (mins_[i] + (code / 255) * range)
RECURSIVE decode255_from(_, _, _)
decode255_from(sq, vector, i) ==
    IF i > sq.original_dim_ THEN <<>>
    ELSE <<255 * sq.mins_[i] + vector[i] * (sq.maxs_[i] - sq.mins_[i])>>
             \o decode255_from(sq, vector, i + 1)

decode255(sq, vector) == decode255_from(sq, vector, 1)

\* 255 * 255 * ScalarQuantizer::calculate_distance: the squared L2 distance
\* between the query and the decoded vector
RECURSIVE sq_distance_from(_, _, _, _)
sq_distance_from(sq, query_vector, decoded255, i) ==
    IF i > sq.original_dim_ THEN 0
    ELSE LET diff == 255 * query_vector[i] - decoded255[i]
         IN  diff * diff + sq_distance_from(sq, query_vector, decoded255, i + 1)

sq_calculate_distance(sq, query_vector, encoded_vector) ==
    sq_distance_from(sq, query_vector, decode255(sq, encoded_vector), 1)

-----------------------------------------------------------------------------
(* VectorStorage accessors and HNSW::calculate_distance(query, node_id) *)

get_vector(h, id) == h.vector_storage.vectors_[id + 1]
get_metadata(h, id) == h.vector_storage.metadata_[id + 1]
get_encoded_vector(h, id) == h.vector_storage.encoded_vectors_[id + 1]

\* a calculate_distance that never asks the quantizer
calculate_distance_by_metric(h, query, node_id) ==
    calculate_distance_vec(h.distance_metric, query, get_vector(h, node_id))

\* calculate_distance(query, node_id): through a trained quantizer when there
\* is one, else the declared metric on the raw vector
calculate_distance(h, query, node_id) ==
    IF Quantizes(h.sq_)
    THEN sq_calculate_distance(h.sq_, query, get_encoded_vector(h, node_id))
    ELSE calculate_distance_vec(h.distance_metric, query, get_vector(h, node_id))

-----------------------------------------------------------------------------
(* The HNSW object *)

\* neighbors.resize(n): n empty lists
RECURSIVE EmptyLists(_)
EmptyLists(n) == IF n = 0 THEN <<>> ELSE Append(EmptyLists(n - 1), <<>>)

\* Node(id, max_layer): neighbors.resize(max_layer + 1)
Node(id, max_layer) ==
    [id |-> id, max_layer |-> max_layer, neighbors |-> EmptyLists(max_layer + 1)]

\* VectorStorage(vector_dimension, sq)
NewVectorStorage(dim) ==
    [vector_dimension_ |-> dim, vectors_ |-> <<>>, metadata_ |-> <<>>,
     encoded_vectors_ |-> <<>>]

\* HNSW(vector_dimension, M, efConstruction, efSearch, metric), sq = nullptr
NewHNSW(dim, m, efc, efs, metric) ==
    [vector_storage |-> NewVectorStorage(dim),
     sq_ |-> NoQuantizer,
     nodes |-> <<>>,
     deleted_nodes_ |-> {},
     entry_point_id |-> -1,
     M |-> m, efConstruction |-> efc, efSearch |-> efs,
     distance_metric |-> metric]

Size(h) == Len(h.nodes)

\* a lookup that never finds the id
IsDeletedNever(h, id) == FALSE

\* deleted_nodes_.find(id) != end  /  deleted_nodes_.count(id)
IsDeleted(h, id) == id \in h.deleted_nodes_

\* the ids of the nodes that exist and are not tombstoned
Live(h) == {id \in 0 .. (Size(h) - 1) : ~IsDeleted(h, id)}

\* a filter test that accepts every node
AcceptsAll(filter, meta) == TRUE

\* !filter || filter(meta)
Accepts(filter, meta) ==
    \/ filter.kind = "nullptr"
    \/ (TypeKey \in DOMAIN meta /\ meta[TypeKey] = filter.value)

-----------------------------------------------------------------------------
(* search_layer, hnsw.h 155-208.  The two priority queues hold (distance,  *)
(* id) pairs, ordered lexicographically, as std::pair is.  The state of a  *)
(* search is the two queues and visited_nodes, together with the ids       *)
(* pushed onto candidate_queue so far, in order (queued), the number of    *)
(* times the body of the while loop was entered (iterations) and whether   *)
(* the loop is still to test its condition (running).                      *)

PairLess(p, q) == p[1] < q[1] \/ (p[1] = q[1] /\ p[2] < q[2])
\* top() of the min-heap candidate_queue
MinPair(S) == CHOOSE p \in S : \A q \in S : p = q \/ PairLess(p, q)
\* top() of the max-heap result_queue
MaxPair(S) == CHOOSE p \in S : \A q \in S : p = q \/ PairLess(q, p)

\* a result queue that is never cut back
NoTrim(res, ef) == res

\* while (result_queue.size() > ef) result_queue.pop();
RECURSIVE Trim(_, _)
Trim(res, ef) ==
    IF Cardinality(res) > ef THEN Trim(res \ {MaxPair(res)}, ef) ELSE res

\* a neighbor loop that passes over the nodes the filter rejects as it passes
\* over tombstoned ones: they become no candidates
RECURSIVE VisitAcceptedNeighbors(_, _, _, _, _, _, _)
VisitAcceptedNeighbors(h, query, ef, filter, nbrs, i, st) ==
    IF i > Len(nbrs) THEN st
    ELSE LET neighbor_id == nbrs[i]
             seen == [st EXCEPT !.visited = @ \cup {neighbor_id}]
             d == calculate_distance(h, query, neighbor_id)
         IN  IF neighbor_id \in st.visited
             THEN VisitAcceptedNeighbors(h, query, ef, filter, nbrs, i + 1, st)
             ELSE IF \/ IsDeleted(h, neighbor_id)
                     \/ ~Accepts(filter, get_metadata(h, neighbor_id))
                     \/ ~(\/ Cardinality(st.results) < ef
                          \/ d < MaxPair(st.results)[1])
             THEN VisitAcceptedNeighbors(h, query, ef, filter, nbrs, i + 1,
                                         seen)
             ELSE VisitAcceptedNeighbors(h, query, ef, filter, nbrs, i + 1,
                    [st EXCEPT
                       !.candidates = @ \cup {<<d, neighbor_id>>},
                       !.queued = Append(@, neighbor_id),
                       !.results = Trim(@ \cup {<<d, neighbor_id>>}, ef),
                       !.visited = seen.visited])

\* the for loop over the neighbors of the popped candidate (178-198)
RECURSIVE VisitNeighbors(_, _, _, _, _, _, _)
VisitNeighbors(h, query, ef, filter, nbrs, i, st) ==
    IF i > Len(nbrs) THEN st
    ELSE LET neighbor_id == nbrs[i]
             seen == st.visited \cup {neighbor_id}
         IN  IF neighbor_id \in st.visited
             THEN VisitNeighbors(h, query, ef, filter, nbrs, i + 1, st)
             ELSE IF IsDeleted(h, neighbor_id)
             THEN VisitNeighbors(h, query, ef, filter, nbrs, i + 1,
                                 [st EXCEPT !.visited = seen])
             ELSE LET d == calculate_distance(h, query, neighbor_id)
                      admit == \/ Cardinality(st.results) < ef
                               \/ d < MaxPair(st.results)[1]
                      pushed == IF Accepts(filter, get_metadata(h, neighbor_id))
                                THEN st.results \cup {<<d, neighbor_id>>}
                                ELSE st.results
                  IN  IF admit
                      THEN VisitNeighbors(h, query, ef, filter, nbrs, i + 1,
                             [st EXCEPT
                                !.candidates = @ \cup {<<d, neighbor_id>>},
                                !.queued = Append(@, neighbor_id),
                                !.results = Trim(pushed, ef),
                                !.visited = seen])
                      ELSE VisitNeighbors(h, query, ef, filter, nbrs, i + 1,
                                          [st EXCEPT !.visited = seen])

\* one test of the while loop's condition (170) and, when it holds, one
\* run of its body (171-198): pop the nearest candidate, break if it is
\* further than a full result queue's furthest, else visit its neighbors
SearchIteration(h, query, ef, layer_level, filter, st) ==
    IF st.candidates = {} THEN [st EXCEPT !.running = FALSE]
    ELSE LET current == MinPair(st.candidates)
             popped == [st EXCEPT !.candidates = st.candidates \ {current},
                                  !.iterations = @ + 1]
         IN  IF Cardinality(st.results) = ef
                /\ current[1] > MaxPair(st.results)[1]
             THEN [popped EXCEPT !.running = FALSE]
             ELSE VisitNeighbors(h, query, ef, filter,
                      h.nodes[current[2] + 1].neighbors[layer_level + 1],
                      1, popped)

\* the while loop over candidate_queue (170-199): the result queue it leaves
RECURSIVE SearchLoop(_, _, _, _, _, _)
SearchLoop(h, query, ef, layer_level, filter, st) ==
    LET next == SearchIteration(h, query, ef, layer_level, filter, st)
    IN  IF next.running
        THEN SearchLoop(h, query, ef, layer_level, filter, next)
        ELSE next.results

\* final_results without the reversal: furthest first
RECURSIVE Descending(_)
Descending(res) ==
    IF res = {} THEN <<>>
    ELSE LET p == MaxPair(res) IN <<p[2]>> \o Descending(res \ {p})

\* final_results: the result queue popped (descending) and then reversed
RECURSIVE Ascending(_)
Ascending(res) ==
    IF res = {} THEN <<>>
    ELSE LET p == MinPair(res) IN <<p[2]>> \o Ascending(res \ {p})

\* a start that queues the entry point without marking it visited
SearchStartUnvisited(h, query, entry_point_id, filter) ==
    LET dist_to_entry == calculate_distance(h, query, entry_point_id)
        live == ~IsDeleted(h, entry_point_id)
    IN  [candidates |-> IF live THEN {<<dist_to_entry, entry_point_id>>}
                        ELSE {},
         queued |-> IF live THEN <<entry_point_id>> ELSE <<>>,
         results |-> IF live /\ Accepts(filter, get_metadata(h, entry_point_id))
                     THEN {<<dist_to_entry, entry_point_id>>} ELSE {},
         visited |-> {},
         iterations |-> 0,
         running |-> TRUE]

\* the queues and the visited set before the loop (161-168): a tombstoned
\* entry point is queued nowhere, a rejected one is no result
SearchStart(h, query, entry_point_id, filter) ==
    LET dist_to_entry == calculate_distance(h, query, entry_point_id)
        live == ~IsDeleted(h, entry_point_id)
    IN  [candidates |-> IF live THEN {<<dist_to_entry, entry_point_id>>}
                        ELSE {},
         queued |-> IF live THEN <<entry_point_id>> ELSE <<>>,
         results |-> IF live /\ Accepts(filter, get_metadata(h, entry_point_id))
                     THEN {<<dist_to_entry, entry_point_id>>} ELSE {},
         visited |-> {entry_point_id},
         iterations |-> 0,
         running |-> TRUE]

\* search_layer (155-208): the ids of the result queue, nearest first
search_layer(h, query, entry_point_id, ef, layer_level, filter) ==
    Ascending(SearchLoop(h, query, ef, layer_level, filter,
                         SearchStart(h, query, entry_point_id, filter)))

-----------------------------------------------------------------------------
(* insert, hnsw.h 210-269 *)

\* an add_vector that forgets the metadata record
add_vector_without_metadata(vs, sq, vec, meta) ==
    [vs EXCEPT !.vectors_ = Append(@, vec),
               !.encoded_vectors_ = IF Quantizes(sq)
                                    THEN Append(@, encode(sq, vec)) ELSE @]

\* VectorStorage::add_vector after its dimension check (69-70)
add_vector(vs, sq, vec, meta) ==
    [vs EXCEPT !.vectors_ = Append(@, vec),
               !.metadata_ = Append(@, meta),
               !.encoded_vectors_ = IF Quantizes(sq)
                                    THEN Append(@, encode(sq, vec)) ELSE @]

\* encoded_vectors_[i] = sq_->encode(vectors_[i]) for the vectors from i on
RECURSIVE EncodeFrom(_, _, _)
EncodeFrom(vectors, sq, i) ==
    IF i > Len(vectors) THEN <<>>
    ELSE <<encode(sq, vectors[i])>> \o EncodeFrom(vectors, sq, i + 1)

\* VectorStorage::encode_all_vectors
encode_all_vectors(vs, sq) ==
    IF ~Quantizes(sq) THEN vs
    ELSE [vs EXCEPT !.encoded_vectors_ = EncodeFrom(vs.vectors_, sq, 1)]

\* the first loop (225-229): greedy descent with ef = 1 through the layers
\* above new_node_layer; an empty answer breaks out of the loop
RECURSIVE Descend(_, _, _, _, _)
Descend(h, vec, current_node_id, layer, new_node_layer) ==
    IF layer <= new_node_layer THEN current_node_id
    ELSE LET candidates == search_layer(h, vec, current_node_id, 1, layer,
                                        NoFilter)
         IN  IF candidates = <<>> THEN current_node_id
             ELSE Descend(h, vec, candidates[1], layer - 1, new_node_layer)

\* the scan for the furthest neighbor (247-256): max_dist starts at -1.0f and
\* only a strictly greater distance replaces it; -1 is "none found"
RECURSIVE FurthestIdx(_, _, _, _, _, _)
FurthestIdx(h, neighbor_id, list, i, max_dist, idx) ==
    IF i > Len(list) THEN idx
    ELSE LET dist == calculate_distance(h, get_vector(h, neighbor_id), list[i])
         IN  IF dist > max_dist
             THEN FurthestIdx(h, neighbor_id, list, i + 1, dist, i - 1)
             ELSE FurthestIdx(h, neighbor_id, list, i + 1, max_dist, idx)

\* vector::erase(begin() + idx)
EraseAt(list, idx) ==
    SubSeq(list, 1, idx) \o SubSeq(list, idx + 2, Len(list))

\* the pruning of neighbor_id's list at a layer (246-260)
Prune(h, neighbor_id, layer) ==
    LET list == h.nodes[neighbor_id + 1].neighbors[layer + 1]
        furthest_neighbor_idx == FurthestIdx(h, neighbor_id, list, 1, -1, -1)
    IN  IF Len(list) > h.M /\ furthest_neighbor_idx # -1
        THEN [h EXCEPT !.nodes[neighbor_id + 1].neighbors[layer + 1] =
                           EraseAt(list, furthest_neighbor_idx)]
        ELSE h

\* a loop that files each neighbor in the new node's topmost list, whatever
\* layer the neighbor was found at
RECURSIVE link_at_top_layer(_, _, _, _, _)
link_at_top_layer(h, new_node_id, layer, new_node_neighbors, i) ==
    IF i > Len(new_node_neighbors) THEN h
    ELSE LET neighbor_id == new_node_neighbors[i]
             top == h.nodes[new_node_id + 1].max_layer
             h1 == [h EXCEPT
                      !.nodes[new_node_id + 1].neighbors[top + 1] =
                          Append(@, neighbor_id)]
             h2 == [h1 EXCEPT
                      !.nodes[neighbor_id + 1].neighbors[layer + 1] =
                          Append(@, new_node_id)]
         IN  link_at_top_layer(Prune(h2, neighbor_id, layer), new_node_id,
                               layer, new_node_neighbors, i + 1)

\* a loop that files the back link in the new node's own list instead of
\* the neighbor's
RECURSIVE link_back_to_itself(_, _, _, _, _)
link_back_to_itself(h, new_node_id, layer, new_node_neighbors, i) ==
    IF i > Len(new_node_neighbors) THEN h
    ELSE LET neighbor_id == new_node_neighbors[i]
             h1 == [h EXCEPT
                      !.nodes[new_node_id + 1].neighbors[layer + 1] =
                          Append(@, neighbor_id)]
             h2 == [h1 EXCEPT
                      !.nodes[new_node_id + 1].neighbors[layer + 1] =
                          Append(@, new_node_id)]
         IN  link_back_to_itself(Prune(h2, neighbor_id, layer), new_node_id,
                                 layer, new_node_neighbors, i + 1)

\* the loop over new_node_neighbors (242-261)
RECURSIVE Link(_, _, _, _, _)
Link(h, new_node_id, layer, new_node_neighbors, i) ==
    IF i > Len(new_node_neighbors) THEN h
    ELSE LET neighbor_id == new_node_neighbors[i]
             h1 == [h EXCEPT
                      !.nodes[new_node_id + 1].neighbors[layer + 1] =
                          Append(@, neighbor_id)]
             h2 == [h1 EXCEPT
                      !.nodes[neighbor_id + 1].neighbors[layer + 1] =
                          Append(@, new_node_id)]
         IN  Link(Prune(h2, neighbor_id, layer), new_node_id, layer,
                  new_node_neighbors, i + 1)

\* the first M ids of neighbors_found (235-240)
FirstM(neighbors_found, m) ==
    SubSeq(neighbors_found, 1,
           IF Len(neighbors_found) < m THEN Len(neighbors_found) ELSE m)

\* the second loop (231-263)
RECURSIVE Connect(_, _, _, _, _)
Connect(h, vec, new_node_id, current_node_id, layer) ==
    IF layer < 0 THEN h
    ELSE LET neighbors_found == search_layer(h, vec, current_node_id,
                                             h.efConstruction, layer, NoFilter)
         IN  IF neighbors_found = <<>>
             THEN Connect(h, vec, new_node_id, current_node_id, layer - 1)
             ELSE Connect(Link(h, new_node_id, layer,
                               FirstM(neighbors_found, h.M), 1),
                          vec, new_node_id, neighbors_found[1], layer - 1)

Min(a, b) == IF a < b THEN a ELSE b
Max(a, b) == IF a > b THEN a ELSE b

\* the id read after add_vector has pushed the vector
NewNodeIdAfterPush(h) == Len(h.vector_storage.vectors_) + 1

\* new_node_id = vector_storage.size()
NewNodeId(h) == Len(h.vector_storage.vectors_)

\* an insert that also takes over the entry point when its layer equals the
\* entry point's
insert_taking_over_on_ties(h, vec, meta, new_node_layer) ==
    LET new_node_id == NewNodeId(h)
        h0 == [h EXCEPT !.vector_storage = add_vector(@, h.sq_, vec, meta),
                        !.nodes = Append(@, Node(new_node_id, new_node_layer))]
    IN  IF h.entry_point_id = -1
        THEN [h0 EXCEPT !.entry_point_id = new_node_id]
        ELSE LET current_max_layer == h0.nodes[h.entry_point_id + 1].max_layer
                 start == Descend(h0, vec, h.entry_point_id, current_max_layer,
                                  new_node_layer)
                 h1 == Connect(h0, vec, new_node_id, start,
                               Min(new_node_layer, current_max_layer))
             IN  IF new_node_layer >= h1.nodes[h1.entry_point_id + 1].max_layer
                 THEN [h1 EXCEPT !.entry_point_id = new_node_id]
                 ELSE h1

\* HNSW::insert for a vector of the right dimension; new_node_layer is the
\* value random_level() draws
insert(h, vec, meta, new_node_layer) ==
    LET new_node_id == NewNodeId(h)
        h0 == [h EXCEPT !.vector_storage = add_vector(@, h.sq_, vec, meta),
                        !.nodes = Append(@, Node(new_node_id, new_node_layer))]
    IN  IF h.entry_point_id = -1
        THEN [h0 EXCEPT !.entry_point_id = new_node_id]
        ELSE LET current_max_layer == h0.nodes[h.entry_point_id + 1].max_layer
                 start == Descend(h0, vec, h.entry_point_id, current_max_layer,
                                  new_node_layer)
                 h1 == Connect(h0, vec, new_node_id, start,
                               Min(new_node_layer, current_max_layer))
             IN  IF new_node_layer > h1.nodes[h1.entry_point_id + 1].max_layer
                 THEN [h1 EXCEPT !.entry_point_id = new_node_id]
                 ELSE h1

-----------------------------------------------------------------------------
(* mark_deleted, hnsw.h 317-332 *)

\* the rescan (320-329): the first node, in id order, among the non-deleted
\* nodes of the greatest max_layer; -1 when none is left
RECURSIVE Rescan(_, _, _, _)
Rescan(h, i, max_layer, new_entry_point) ==
    IF i > Len(h.nodes) THEN new_entry_point
    ELSE LET node == h.nodes[i]
         IN  IF ~IsDeleted(h, node.id) /\ node.max_layer > max_layer
             THEN Rescan(h, i + 1, node.max_layer, node.id)
             ELSE Rescan(h, i + 1, max_layer, new_entry_point)

\* a mark_deleted that also empties the neighbor lists of the node
mark_deleted_and_unlink(h, id) ==
    LET h1 == [h EXCEPT !.deleted_nodes_ = @ \cup {id}]
        h2 == IF id < Size(h)
              THEN [h1 EXCEPT !.nodes[id + 1].neighbors =
                                  EmptyLists(h.nodes[id + 1].max_layer + 1)]
              ELSE h1
    IN  IF h.entry_point_id = id
        THEN [h2 EXCEPT !.entry_point_id = Rescan(h2, 1, -1, -1)]
        ELSE h2

\* HNSW::mark_deleted (317-332)
mark_deleted(h, id) ==
    LET h1 == [h EXCEPT !.deleted_nodes_ = @ \cup {id}]
    IN  IF h.entry_point_id = id
        THEN [h1 EXCEPT !.entry_point_id = Rescan(h1, 1, -1, -1)]
        ELSE h1

-----------------------------------------------------------------------------
(* k_nearest_neighbors, hnsw.h 271-305: the ids of the results, in order *)

\* the loop over the layers above 0 (277-282)
RECURSIVE QueryDescend(_, _, _, _, _)
QueryDescend(h, query, current_node_id, layer, filter) ==
    IF layer <= 0 THEN current_node_id
    ELSE LET candidates == search_layer(h, query, current_node_id, 1, layer,
                                        filter)
         IN  QueryDescend(h, query,
                          IF candidates # <<>> THEN candidates[1]
                          ELSE current_node_id,
                          layer - 1, filter)

\* the loop over results_ids (287-303), k >= 0
RECURSIVE Collect(_, _, _, _, _)
Collect(h, results_ids, i, k, final_results) ==
    IF i > Len(results_ids) THEN final_results
    ELSE IF IsDeleted(h, results_ids[i])
    THEN Collect(h, results_ids, i + 1, k, final_results)
    ELSE IF Len(final_results) >= k THEN final_results
    ELSE Collect(h, results_ids, i + 1, k,
                 Append(final_results, results_ids[i]))

k_nearest_neighbors(h, query, k, filter) ==
    IF h.entry_point_id = -1 THEN <<>>
    ELSE LET current_max_layer == h.nodes[h.entry_point_id + 1].max_layer
             start == QueryDescend(h, query, h.entry_point_id,
                                   current_max_layer, filter)
             results_ids == search_layer(h, query, start, Max(k, h.efSearch),
                                         0, filter)
         IN  Collect(h, results_ids, 1, k, <<>>)

-----------------------------------------------------------------------------
(* The Database facade, database.h.  ret records the last call: its name,  *)
(* how it ended, the id it was given (update_vector) and what it returned. *)

Ret(op, status, id, val) == [op |-> op, status |-> status, id |-> id, val |-> val]

\* HNSW::set_quantizer (147-153): the quantizer and a fresh VectorStorage
set_quantizer(h, sq) ==
    [h EXCEPT !.sq_ = sq,
              !.vector_storage = NewVectorStorage(@.vector_dimension_)]

\* the index the Database constructor builds (22-26), before any load()
NewDatabaseIndex(metric, sq_enabled, cast) ==
    LET h == NewHNSW(1, ParamM, ParamEfConstruction, ParamEfSearch, metric)
    IN  IF sq_enabled THEN set_quantizer(h, NewQuantizer(1, cast))
        ELSE [h EXCEPT !.sq_.uint8_cast = cast]

\* Database(db_path, vector_dimension, M, efConstruction, efSearch, metric)
Init ==
    /\ \E metric \in Metrics :
         hnsw_ = NewDatabaseIndex(metric, FALSE, "wrap")
    /\ read_only_ = FALSE
    /\ file = <<>>
    /\ ret = Ret("Database", "ok", -1, -1)

\* a dimension check that lets every vector through
DimensionOkAlways(h, vec) == TRUE

\* the dimension check of VectorStorage::add_vector (66-68)
DimensionOk(h, vec) == Len(vec) = h.vector_storage.vector_dimension_

\* Database::insert
Insert(vec, meta, new_node_layer) ==
    IF read_only_
    THEN /\ ret' = Ret("insert", "read_only", -1, -1)
         /\ UNCHANGED <<hnsw_, read_only_, file>>
    ELSE IF ~DimensionOk(hnsw_, vec)
    THEN /\ ret' = Ret("insert", "dimension_mismatch", -1, -1)
         /\ UNCHANGED <<hnsw_, read_only_, file>>
    ELSE /\ hnsw_' = insert(hnsw_, vec, meta, new_node_layer)
         /\ ret' = Ret("insert", "ok", -1, NewNodeId(hnsw_))
         /\ UNCHANGED <<read_only_, file>>

\* delete_vector without its read-only check
DeleteVectorUnguarded(id) ==
    /\ hnsw_' = mark_deleted(hnsw_, id)
    /\ ret' = Ret("delete_vector", "ok", -1, -1)
    /\ UNCHANGED <<read_only_, file>>

\* Database::delete_vector
DeleteVector(id) ==
    IF read_only_
    THEN /\ ret' = Ret("delete_vector", "read_only", -1, -1)
         /\ UNCHANGED <<hnsw_, read_only_, file>>
    ELSE /\ hnsw_' = mark_deleted(hnsw_, id)
         /\ ret' = Ret("delete_vector", "ok", -1, -1)
         /\ UNCHANGED <<read_only_, file>>

\* Database::update_vector: delete_vector(id), then insert(new_vec, new_meta);
\* when insert throws, the delete has already happened
UpdateVector(id, new_vec, new_meta, new_node_layer) ==
    IF read_only_
    THEN /\ ret' = Ret("update_vector", "read_only", id, -1)
         /\ UNCHANGED <<hnsw_, read_only_, file>>
    ELSE LET h1 == mark_deleted(hnsw_, id)
         IN  IF ~DimensionOk(h1, new_vec)
             THEN /\ hnsw_' = h1
                  /\ ret' = Ret("update_vector", "dimension_mismatch", id, -1)
                  /\ UNCHANGED <<read_only_, file>>
             ELSE /\ hnsw_' = insert(h1, new_vec, new_meta, new_node_layer)
                  /\ ret' = Ret("update_vector", "ok", id, NewNodeId(h1))
                  /\ UNCHANGED <<read_only_, file>>

\* the loop of rebuild_index (91-95): every non-deleted vector of the old
\* storage, in id order, inserted into new_hnsw; levels[n] is the level
\* random_level() draws at the n-th insert
RECURSIVE Reinsert(_, _, _, _)
Reinsert(old, new_hnsw, i, levels) ==
    IF i >= Len(old.vector_storage.vectors_) THEN new_hnsw
    ELSE IF IsDeleted(old, i) THEN Reinsert(old, new_hnsw, i + 1, levels)
    ELSE Reinsert(old,
                  insert(new_hnsw, get_vector(old, i), get_metadata(old, i),
                         levels[Size(new_hnsw) + 1]),
                  i + 1, levels)

\* the stored vectors of the nodes that are not tombstoned, from id i on
RECURSIVE LiveVectors(_, _)
LiveVectors(h, i) ==
    IF i >= Len(h.vector_storage.vectors_) THEN <<>>
    ELSE (IF IsDeleted(h, i) THEN <<>> ELSE <<get_vector(h, i)>>)
             \o LiveVectors(h, i + 1)

\* a train_quantizer that trains on the live vectors only
train_quantizer_on_live(h) ==
    IF ~h.sq_.attached THEN h
    ELSE LET sq == train(h.sq_, LiveVectors(h, 0))
         IN  [h EXCEPT !.sq_ = sq,
                       !.vector_storage = encode_all_vectors(@, sq)]

\* a train_quantizer that leaves the stored encodings as they were
train_quantizer_without_encoding(h) ==
    IF ~h.sq_.attached THEN h
    ELSE [h EXCEPT !.sq_ = train(h.sq_, h.vector_storage.vectors_)]

\* Database::train_quantizer (58-70): train on every stored vector, then
\* encode every stored vector again
train_quantizer(h) ==
    IF ~h.sq_.attached THEN h
    ELSE LET sq == train(h.sq_, h.vector_storage.vectors_)
         IN  [h EXCEPT !.sq_ = sq,
                       !.vector_storage = encode_all_vectors(@, sq)]

\* HNSW new_hnsw(dimension, M, efConstruction, efSearch, metric, sq_.get())
RebuiltHNSW(h) ==
    [NewHNSW(h.vector_storage.vector_dimension_, h.M, h.efConstruction,
             h.efSearch, h.distance_metric) EXCEPT !.sq_ = h.sq_]

\* a rebuild that carries the tombstones over to the new index
rebuild_keeps_tombstones(h, levels) ==
    [Reinsert(train_quantizer(h), RebuiltHNSW(train_quantizer(h)), 0, levels)
        EXCEPT !.deleted_nodes_ = h.deleted_nodes_]

\* the surviving nodes of h from id i on, renumbered from k, each with the
\* neighbor lists it had
RECURSIVE KeptNodes(_, _, _)
KeptNodes(h, i, k) ==
    IF i >= Size(h) THEN <<>>
    ELSE IF IsDeleted(h, i) THEN KeptNodes(h, i + 1, k)
    ELSE <<[h.nodes[i + 1] EXCEPT !.id = k]>> \o KeptNodes(h, i + 1, k + 1)

\* a rebuild that compacts the ids but keeps the old neighbor lists
rebuild_keeps_links(h, levels) ==
    [Reinsert(train_quantizer(h), RebuiltHNSW(train_quantizer(h)), 0, levels)
        EXCEPT !.nodes = KeptNodes(h, 0, 0)]

\* rebuild_index after its read-only check (77-97)
rebuild(h, levels) ==
    Reinsert(train_quantizer(h), RebuiltHNSW(train_quantizer(h)), 0, levels)

\* Database::train_quantizer has no read-only check
TrainQuantizer ==
    /\ hnsw_' = train_quantizer(hnsw_)
    /\ ret' = Ret("train_quantizer", "ok", -1, -1)
    /\ UNCHANGED <<read_only_, file>>

\* Database::rebuild_index
RebuildIndex(levels) ==
    IF read_only_
    THEN /\ ret' = Ret("rebuild_index", "read_only", -1, -1)
         /\ UNCHANGED <<hnsw_, read_only_, file>>
    ELSE /\ hnsw_' = rebuild(hnsw_, levels)
         /\ ret' = Ret("rebuild_index", "ok", -1, -1)
         /\ UNCHANGED <<read_only_, file>>

\* Database::query
Query(query, k, filter) ==
    /\ ret' = Ret("query", "ok", -1, k_nearest_neighbors(hnsw_, query, k, filter))
    /\ UNCHANGED <<hnsw_, read_only_, file>>

\* enum class Include
Includes == {"ID", "DISTANCE", "METADATA", "VECTOR"}

\* what the float member of a default-initialized QueryResult (`QueryResult
\* result;`, a struct without member initializers) can hold when it is never
\* assigned: an indeterminate value, zero or anything else
IndeterminateFloats == {0, 1}

\* one QueryResult (291-302): id always; distance, metadata and vector when
\* the include set names them, else as QueryResult result; left them
QueryResultOf(h, query, id, include, unassigned) ==
    [id |-> id,
     distance |-> IF "DISTANCE" \in include
                  THEN calculate_distance(h, query, id) ELSE unassigned,
     metadata |-> IF "METADATA" \in include
                  THEN get_metadata(h, id) ELSE EmptyMeta,
     vector |-> IF "VECTOR" \in include THEN get_vector(h, id) ELSE <<>>]

\* final_results: the QueryResult of every id k_nearest_neighbors keeps, from
\* the i-th on; unassigned[i] is what the i-th result's distance holds when
\* it is not assigned
RECURSIVE QueryResults(_, _, _, _, _, _)
QueryResults(h, query, ids, include, unassigned, i) ==
    IF i > Len(ids) THEN <<>>
    ELSE <<QueryResultOf(h, query, ids[i], include, unassigned[i])>>
             \o QueryResults(h, query, ids, include, unassigned, i + 1)

\* Database::query with an include set; ret.val records the call's query and
\* include set beside the results it returned
QueryInclude(query, k, filter, include) ==
    /\ \E unassigned \in [1 .. k -> IndeterminateFloats] :
          ret' = Ret("query", "ok", -1,
                     [query |-> query, include |-> include,
                      results |-> QueryResults(hnsw_, query,
                                      k_nearest_neighbors(hnsw_, query, k, filter),
                                      include, unassigned, 1)])
    /\ UNCHANGED <<hnsw_, read_only_, file>>

-----------------------------------------------------------------------------
(* Persistence, database.h 100-249.  The file is the sequence of the       *)
(* fields save() writes, one element per scalar (a bool, an int, a size_t, *)
(* a float, a char); the empty sequence is "no file at db_path_".          *)

\* the enum ordinal written for DistanceMetric
MetricOrdinal(metric) ==
    CASE metric = "L2" -> 0 [] metric = "COSINE" -> 1 [] metric = "IP" -> 2
\* the enum read back with COSINE and IP in the other order
MetricOfOrdinalSwapped(n) ==
    CASE n = 0 -> "L2" [] n = 1 -> "IP" [] n = 2 -> "COSINE"

MetricOfOrdinal(n) ==
    CASE n = 0 -> "L2" [] n = 1 -> "COSINE" [] n = 2 -> "IP"

\* std::string / std::map order: lexicographic on the characters
RECURSIVE LexLess(_, _)
LexLess(a, b) ==
    IF a = <<>> THEN b # <<>>
    ELSE IF b = <<>> THEN FALSE
    ELSE IF a[1] # b[1] THEN a[1] < b[1]
    ELSE LexLess(Tail(a), Tail(b))

\* for (const auto& pair : meta): key_size, key, value_size, value (146-154)
RECURSIVE WriteMetaPairs(_, _)
WriteMetaPairs(meta, keys) ==
    IF keys = {} THEN <<>>
    ELSE LET key == CHOOSE x \in keys : \A y \in keys : x = y \/ LexLess(x, y)
         IN  <<Len(key)>> \o key \o <<Len(meta[key])>> \o meta[key]
                 \o WriteMetaPairs(meta, keys \ {key})

\* one node: id, max_layer, then per layer num_neighbors and the ids (125-131)
RECURSIVE WriteLayers(_, _)
WriteLayers(node, layer) ==
    IF layer > node.max_layer THEN <<>>
    ELSE <<Len(node.neighbors[layer + 1])>> \o node.neighbors[layer + 1]
             \o WriteLayers(node, layer + 1)

RECURSIVE WriteNodes(_, _)
WriteNodes(nodes, i) ==
    IF i > Len(nodes) THEN <<>>
    ELSE <<nodes[i].id, nodes[i].max_layer>> \o WriteLayers(nodes[i], 0)
             \o WriteNodes(nodes, i + 1)

\* one vector: vector_dimension floats, meta_size, the pairs (139-155)
RECURSIVE WriteVectors(_, _)
WriteVectors(vs, i) ==
    IF i > Len(vs.vectors_) THEN <<>>
    ELSE SubSeq(vs.vectors_[i], 1, vs.vector_dimension_)
             \o <<Cardinality(DOMAIN vs.metadata_[i])>>
             \o WriteMetaPairs(vs.metadata_[i], DOMAIN vs.metadata_[i])
             \o WriteVectors(vs, i + 1)

\* the deleted ids (160-162); the unordered_set is walked in some order, and
\* load() puts the ids back into a set, so ascending stands for any order
RECURSIVE WriteDeleted(_)
WriteDeleted(ids) ==
    IF ids = {} THEN <<>>
    ELSE LET id == CHOOSE x \in ids : \A y \in ids : x <= y
         IN  <<id>> \o WriteDeleted(ids \ {id})

\* ScalarQuantizer::save: original_dim_, then original_dim_ floats from
\* mins_.data() and from maxs_.data().  Before training both vectors are
\* empty and the floats are read past their end (undefined behaviour):
\* unread is what the file then holds in their place.  A build in which that
\* read ends the process instead writes nothing more: its behaviour stops
\* there.
sq_save(sq, unread) ==
    <<sq.original_dim_>>
    \o (IF is_trained(sq) THEN sq.mins_ \o sq.maxs_ ELSE unread)

\* the floats an out-of-bounds read of 2 * original_dim_ floats may find
UnreadFloats(sq) ==
    IF sq.attached /\ ~is_trained(sq)
    THEN [1 .. 2 * sq.original_dim_ -> {0, 2}]
    ELSE {<<>>}

\* what save() writes
Serialize(h, unread) ==
    (IF h.sq_.attached THEN <<1>> \o sq_save(h.sq_, unread) ELSE <<0>>)
    \o <<h.M, h.efConstruction, h.efSearch, MetricOrdinal(h.distance_metric)>>
    \o <<Len(h.nodes)>> \o WriteNodes(h.nodes, 1)
    \o <<Len(h.vector_storage.vectors_), h.vector_storage.vector_dimension_>>
    \o WriteVectors(h.vector_storage, 1)
    \o <<Cardinality(h.deleted_nodes_)>> \o WriteDeleted(h.deleted_nodes_)

\* the readers return what they read and the position after it
RECURSIVE ReadLayers(_, _, _, _)
ReadLayers(f, pos, left, neighbors) ==
    IF left = 0 THEN [val |-> neighbors, pos |-> pos]
    ELSE LET num_neighbors == f[pos]
         IN  ReadLayers(f, pos + 1 + num_neighbors, left - 1,
                        Append(neighbors,
                               SubSeq(f, pos + 1, pos + num_neighbors)))

RECURSIVE ReadNodes(_, _, _, _)
ReadNodes(f, pos, left, nodes) ==
    IF left = 0 THEN [val |-> nodes, pos |-> pos]
    ELSE LET id == f[pos]
             max_layer == f[pos + 1]
             layers == ReadLayers(f, pos + 2, max_layer + 1, <<>>)
         IN  ReadNodes(f, layers.pos, left - 1,
                       Append(nodes, [id |-> id, max_layer |-> max_layer,
                                      neighbors |-> layers.val]))

RECURSIVE ReadMetaPairs(_, _, _, _)
ReadMetaPairs(f, pos, left, meta) ==
    IF left = 0 THEN [val |-> meta, pos |-> pos]
    ELSE LET key_size == f[pos]
             key == SubSeq(f, pos + 1, pos + key_size)
             vpos == pos + 1 + key_size
             value_size == f[vpos]
             value == SubSeq(f, vpos + 1, vpos + value_size)
         IN  ReadMetaPairs(f, vpos + 1 + value_size, left - 1,
                           [k \in DOMAIN meta \cup {key} |->
                               IF k = key THEN value ELSE meta[k]])

RECURSIVE ReadVectors(_, _, _, _, _)
ReadVectors(f, pos, left, sq, vs) ==
    IF left = 0 THEN [val |-> vs, pos |-> pos]
    ELSE LET dim == vs.vector_dimension_
             vec == SubSeq(f, pos, pos + dim - 1)
             meta == ReadMetaPairs(f, pos + dim + 1, f[pos + dim], EmptyMeta)
         IN  ReadVectors(f, meta.pos, left - 1, sq,
                         add_vector(vs, sq, vec, meta.val))

\* HNSW's loading constructor (132-145): the entry point is the last node
LoadedHNSW(dim, m, efc, efs, metric, nodes, vs, deleted, sq) ==
    [vector_storage |-> vs,
     sq_ |-> sq,
     nodes |-> nodes,
     deleted_nodes_ |-> deleted,
     entry_point_id |-> IF nodes = <<>> THEN -1 ELSE nodes[Len(nodes)].id,
     M |-> m, efConstruction |-> efc, efSearch |-> efs,
     distance_metric |-> metric]

\* ScalarQuantizer::load on a ScalarQuantizer(0): original_dim_, then
\* mins_ and maxs_ resized to it and read
sq_load(f, pos, cast) ==
    LET original_dim == f[pos]
    IN  [attached |-> TRUE, original_dim_ |-> original_dim,
         mins_ |-> SubSeq(f, pos + 1, pos + original_dim),
         maxs_ |-> SubSeq(f, pos + original_dim + 1, pos + 2 * original_dim),
         uint8_cast |-> cast]

\* what load() builds from an existing file (175-248); sq is the quantizer
\* the Database holds when load() is called
Parse(f, sq) ==
    LET sq_enabled == f[1] = 1
        loaded_sq == IF sq_enabled THEN sq_load(f, 2, sq.uint8_cast) ELSE sq
        p == IF sq_enabled THEN 3 + 2 * f[2] ELSE 2
        nodes == ReadNodes(f, p + 5, f[p + 4], <<>>)
        num_vectors == f[nodes.pos]
        vector_dimension == f[nodes.pos + 1]
        storage == ReadVectors(f, nodes.pos + 2, num_vectors, loaded_sq,
                               NewVectorStorage(vector_dimension))
        encoded == IF sq_enabled
                   THEN encode_all_vectors(storage.val, loaded_sq)
                   ELSE storage.val
        num_deleted_nodes == f[storage.pos]
        deleted == {f[i] : i \in (storage.pos + 1) ..
                                 (storage.pos + num_deleted_nodes)}
    IN  LoadedHNSW(vector_dimension, f[p], f[p + 1], f[p + 2],
                   MetricOfOrdinal(f[p + 3]), nodes.val, encoded, deleted,
                   loaded_sq)

\* load(): nothing happens when the file cannot be opened
load(h, f) == IF f = <<>> THEN h ELSE Parse(f, h.sq_)

\* Database::save; can_open: std::ofstream can open db_path_.  A stream that
\* is not open ignores every write and save() returns as usual; val records
\* whether the stream was open.
Save(can_open) ==
    IF read_only_
    THEN /\ ret' = Ret("save", "read_only", -1, -1)
         /\ UNCHANGED <<hnsw_, read_only_, file>>
    ELSE /\ \E unread \in UnreadFloats(hnsw_.sq_) :
              file' = IF can_open THEN Serialize(hnsw_, unread) ELSE file
         /\ ret' = Ret("save", "ok", -1, IF can_open THEN 1 ELSE 0)
         /\ UNCHANGED <<hnsw_, read_only_>>

\* Database::load, called on the instance at hand
Load ==
    /\ hnsw_' = load(hnsw_, file)
    /\ ret' = Ret("load", "ok", -1, -1)
    /\ UNCHANGED <<read_only_, file>>

\* Database(db_path, 1, M, efConstruction, efSearch, metric, read_only = true,
\* 0, sq_enabled): a new instance on the same path, which loads the file
OpenReadOnly(metric, sq_enabled) ==
    /\ hnsw_' = load(NewDatabaseIndex(metric, sq_enabled,
                                      hnsw_.sq_.uint8_cast), file)
    /\ read_only_' = TRUE
    /\ ret' = Ret("Database", "ok", -1, -1)
    /\ UNCHANGED file

-----------------------------------------------------------------------------
(* The in-memory specification: inserts, deletes, updates and rebuilds on  *)
(* a writable instance of at most MaxNodes nodes.  delete_vector and       *)
(* update_vector take any id, of an existing node or not.                  *)

\* the index still has room under the bound
Room(n) == Size(hnsw_) < n

\* the metadata given to update_vector, told apart from that of insert
UpdateMeta == MetaB

Next ==
    \/ \E vec \in Vecs \cup {BadVec}, l \in Layers :
         Room(MaxNodes) /\ Insert(vec, MetaA, l)
    \/ \E id \in Ids : DeleteVector(id)
    \/ \E id \in Ids, vec \in {<<1>>, BadVec}, l \in Layers :
         Room(MaxNodes) /\ UpdateVector(id, vec, UpdateMeta, l)
    \/ \E levels \in [1 .. Cardinality(Live(hnsw_)) -> Layers] :
         RebuildIndex(levels)

Spec == Init /\ [][Next]_vars

-----------------------------------------------------------------------------
(* The persistence specification: a writable instance that inserts,        *)
(* deletes (existing ids), saves and loads, and read-only instances opened *)
(* on the saved file, on which every operation is tried.                   *)

\* (vector, metadata, level) of the inserts
PersistInserts ==
    {<<<<1>>, EmptyMeta, 0>>, <<<<2>>, MetaA, 0>>, <<<<1>>, MetaA, 1>>,
     <<BadVec, MetaA, 0>>}

NextPersist ==
    \/ \E in \in PersistInserts :
         Room(MaxNodes) /\ Insert(in[1], in[2], in[3])
    \/ \E id \in Ids : id < Size(hnsw_) /\ DeleteVector(id)
    \/ \E id \in Ids, l \in Layers :
         read_only_ /\ UpdateVector(id, <<1>>, EmptyMeta, l)
    \/ \E levels \in [1 .. Cardinality(Live(hnsw_)) -> Layers] :
         read_only_ /\ RebuildIndex(levels)
    \/ Query(<<1>>, MaxNodes, NoFilter)
    \/ Save(TRUE)
    \/ Load
    \/ \E metric \in Metrics : OpenReadOnly(metric, FALSE)

SpecPersist == Init /\ [][NextPersist]_vars

-----------------------------------------------------------------------------
(* The graph specification: inserts at layer 0 along a line and deletes of *)
(* existing nodes, on an index large enough for neighbor lists to overflow *)

QuantizedMetrics == {"L2"}
QuantizedLayers == {0}
QuantizedVecs == {<<0>>, <<2>>}
QuantizedNodes == MaxNodes - 1

GraphNodes == MaxNodes + 1
GraphVecs == {<<v>> : v \in 0 .. MaxNodes}

NextGraph ==
    \/ \E vec \in GraphVecs : Room(GraphNodes) /\ Insert(vec, MetaA, 0)
    \/ \E id \in 0 .. (GraphNodes - 1) : id < Size(hnsw_) /\ DeleteVector(id)

SpecGraph == Init /\ [][NextGraph]_vars

-----------------------------------------------------------------------------
(* The quantizer specification: every operation of the Database, on       *)
(* instances built with and without a quantizer, over a path that may or  *)
(* may not be openable for writing.                                        *)

\* Database(db_path, 1, M, efConstruction, efSearch, metric, false, 0,
\* sq_enabled), in a build of either float-to-uint8 conversion
InitQuantized ==
    /\ \E metric \in QuantizedMetrics, sq_enabled \in BOOLEAN,
          cast \in Uint8Casts :
         hnsw_ = NewDatabaseIndex(metric, sq_enabled, cast)
    /\ read_only_ = FALSE
    /\ file = <<>>
    /\ ret = Ret("Database", "ok", -1, -1)

\* nothing has been saved at db_path_ yet
Unsaved == file = <<>>

\* The path is saved to once.  Until then every operation is tried; on the
\* saved file, instances are opened and loaded, appended to, deleted from
\* and retrained, and read-only instances are given every operation.
NextQuantized ==
    \/ \E vec \in QuantizedVecs \cup {BadVec}, l \in QuantizedLayers :
          Room(QuantizedNodes) /\ Insert(vec, MetaA, l)
    \/ \E id \in Ids : id <= Size(hnsw_) /\ DeleteVector(id)
    \/ \E id \in Ids, l \in QuantizedLayers :
          /\ Unsaved \/ read_only_
          /\ id <= Size(hnsw_) /\ Room(QuantizedNodes)
          /\ UpdateVector(id, <<1>>, UpdateMeta, l)
    \/ \E levels \in [1 .. Cardinality(Live(hnsw_)) -> QuantizedLayers] :
          (Unsaved \/ read_only_) /\ RebuildIndex(levels)
    \/ TrainQuantizer
    \/ Query(<<1>>, MaxNodes, NoFilter)
    \/ \E can_open \in BOOLEAN :
          (can_open => Unsaved \/ read_only_) /\ Save(can_open)
    \/ Load
    \/ \E metric \in QuantizedMetrics, sq_enabled \in BOOLEAN :
          OpenReadOnly(metric, sq_enabled)

SpecQuantized == InitQuantized /\ [][NextQuantized]_vars

-----------------------------------------------------------------------------
(* The lifecycle specification: an index of up to MaxNodes nodes on both   *)
(* layers is built with inserts, deletes, updates and rebuilds, saved      *)
(* once, and then loaded, opened read-only, appended to and deleted from.  *)

NextLifecycle ==
    \/ \E vec \in QuantizedVecs, l \in Layers :
          Room(MaxNodes) /\ Insert(vec, MetaA, l)
    \/ \E id \in Ids : id <= Size(hnsw_) /\ DeleteVector(id)
    \/ \E id \in Ids, l \in Layers :
          /\ Unsaved /\ id <= Size(hnsw_) /\ Room(MaxNodes)
          /\ UpdateVector(id, <<1>>, UpdateMeta, l)
    \/ \E levels \in [1 .. Cardinality(Live(hnsw_)) -> Layers] :
          Unsaved /\ RebuildIndex(levels)
    \/ Unsaved /\ Save(TRUE)
    \/ Load
    \/ ~Unsaved /\ OpenReadOnly("L2", FALSE)

SpecLifecycle == Init /\ [][NextLifecycle]_vars

-----------------------------------------------------------------------------
(* The small-index specification: an index built by inserts only, of at    *)
(* most M + 1 nodes, with efConstruction and efSearch no less than that.   *)

SmallNodes == ParamM + 1
SmallEf == IF ParamEfConstruction > SmallNodes THEN ParamEfConstruction
           ELSE SmallNodes

\* Database(db_path, 1, M, efConstruction, efSearch, metric)
InitSmall ==
    /\ \E metric \in Metrics :
         hnsw_ = NewHNSW(1, ParamM, SmallEf, SmallEf, metric)
    /\ read_only_ = FALSE
    /\ file = <<>>
    /\ ret = Ret("Database", "ok", -1, -1)

NextSmall ==
    \/ \E vec \in Vecs, meta \in {MetaA, MetaB}, l \in Layers :
          Room(SmallNodes) /\ Insert(vec, meta, l)
    \/ \E query \in Vecs \cup {ShortVec}, filter \in Filters :
          Query(query, 1, filter)

SpecSmall == InitSmall /\ [][NextSmall]_vars

-----------------------------------------------------------------------------
(* The results specification: instances of every metric, built with and    *)
(* without a quantizer, that insert, delete, train and answer queries with *)
(* several include sets.                                                   *)

InitResults ==
    /\ \E metric \in Metrics, sq_enabled \in BOOLEAN, cast \in Uint8Casts :
         hnsw_ = NewDatabaseIndex(metric, sq_enabled, cast)
    /\ read_only_ = FALSE
    /\ file = <<>>
    /\ ret = Ret("Database", "ok", -1, -1)

\* the include sets queries are made with
IncludeSets ==
    {{"ID"}, {"ID", "DISTANCE"}, {"DISTANCE", "METADATA", "VECTOR"}}

NextResults ==
    \/ \E vec \in Vecs, meta \in Metas :
          Room(QuantizedNodes) /\ Insert(vec, meta, 0)
    \/ \E id \in Ids : id < Size(hnsw_) /\ DeleteVector(id)
    \/ TrainQuantizer
    \/ \E include \in IncludeSets :
          QueryInclude(<<0>>, QuantizedNodes, NoFilter, include)

SpecResults == InitResults /\ [][NextResults]_vars

-----------------------------------------------------------------------------
(* The filtered-graph specification: inserts at layer 0 of vectors along a *)
(* line with either type, the delete of one existing node and filtered     *)
(* queries with room for every node, on an index large enough for neighbor *)
(* lists to be pruned.                                                     *)

NextFiltered ==
    \/ \E vec \in GraphVecs, meta \in Metas :
          Room(GraphNodes) /\ Insert(vec, meta, 0)
    \/ \E id \in 0 .. (GraphNodes - 1) :
          id < Size(hnsw_) /\ hnsw_.deleted_nodes_ = {} /\ DeleteVector(id)
    \/ Query(<<0>>, GraphNodes, TypeIs(StrA))

SpecFiltered == Init /\ [][NextFiltered]_vars

-----------------------------------------------------------------------------
(* The search specification: search_layer run one loop iteration at a      *)
(* time, on graphs built at layer 0 by inserts of vectors along a line and *)
(* the delete of one existing node, large enough for neighbor lists to be  *)
(* pruned (edges that lead one way only).  A search runs from its first    *)
(* line to its return with nothing in between: the calling thread does     *)
(* nothing else until search_layer returns.                                *)

SearchQueries == {<<0>>}
SearchFilters == {NoFilter, TypeIs(StrB)}

\* a call of search_layer has not returned yet
Searching == ret.op = "search_layer" /\ ret.status = "running"

\* search_layer up to its loop (155-168), called as insert and
\* k_nearest_neighbors call it: from the entry point at a layer it has
SearchLayerBegin(query, ef, layer_level, filter) ==
    /\ hnsw_.entry_point_id # -1
    /\ layer_level <= hnsw_.nodes[hnsw_.entry_point_id + 1].max_layer
    /\ ret' = Ret("search_layer", "running", hnsw_.entry_point_id,
                  [query |-> query, ef |-> ef, layer_level |-> layer_level,
                   filter |-> filter,
                   st |-> SearchStart(hnsw_, query, hnsw_.entry_point_id,
                                      filter)])
    /\ UNCHANGED <<hnsw_, read_only_, file>>

\* one test of the loop condition and one run of the body (170-199); the
\* search returns when the loop is left
SearchLayerStep ==
    /\ Searching
    /\ LET next == SearchIteration(hnsw_, ret.val.query, ret.val.ef,
                                   ret.val.layer_level, ret.val.filter,
                                   ret.val.st)
       IN  ret' = Ret("search_layer",
                      IF next.running THEN "running" ELSE "done",
                      ret.id, [ret.val EXCEPT !.st = next])
    /\ UNCHANGED <<hnsw_, read_only_, file>>

NextSearch ==
    \/ \E vec \in Vecs :
          ~Searching /\ Room(GraphNodes) /\ Insert(vec, MetaA, 0)
    \/ \E id \in 0 .. (GraphNodes - 1) :
          /\ ~Searching /\ id < Size(hnsw_) /\ hnsw_.deleted_nodes_ = {}
          /\ DeleteVector(id)
    \/ \E query \in SearchQueries, ef \in {1, hnsw_.efConstruction},
          filter \in SearchFilters :
          ~Searching /\ SearchLayerBegin(query, ef, 0, filter)
    \/ SearchLayerStep

SpecSearch == Init /\ [][NextSearch]_vars

\* the thread that called search_layer keeps running it
SpecSearchFair == SpecSearch /\ WF_vars(SearchLayerStep)

-----------------------------------------------------------------------------
(* Properties *)

\* the queries tried in every state
QueryVecs == {<<0>>, <<2>>}
Ks == {1, MaxNodes}

\* the ids a sequence holds
Range(seq) == {seq[i] : i \in 1 .. Len(seq)}
MaxLayerOf(h, id) == h.nodes[id + 1].max_layer

\* C1: a successful insert returns size() as it was before the call and
\* makes size() one larger, and the i-th node carries id i, so the ids handed
\* out by successive inserts increase strictly and none is handed out twice.
C1_InsertReturnsPreviousSize ==
    [][(ret'.op = "insert" /\ ret'.status = "ok") =>
          /\ ret'.val = Size(hnsw_)
          /\ Size(hnsw_') = Size(hnsw_) + 1
          /\ \A i \in 1 .. Size(hnsw_') : hnsw_'.nodes[i].id = i - 1]_vars

\* an insert that returned id 2 into an index that holds a tombstone
C1_Witness ==
    /\ ret.op = "insert" /\ ret.status = "ok" /\ ret.val = 2
    /\ hnsw_.deleted_nodes_ # {}

\* C2: every neighbor list of every node, at every layer, holds at most M ids.
C2_NeighborListsAtMostM ==
    \A i \in 1 .. Size(hnsw_) :
        \A l \in 1 .. (hnsw_.nodes[i].max_layer + 1) :
            Len(hnsw_.nodes[i].neighbors[l]) <= hnsw_.M

\* C3: the entry point is none exactly when no node is live, and otherwise
\* it names a live node whose max_layer is the greatest among the live nodes.
C3_EntryPointIsTopLiveNode ==
    IF Live(hnsw_) = {} THEN hnsw_.entry_point_id = -1
    ELSE /\ hnsw_.entry_point_id \in Live(hnsw_)
         /\ \A id \in Live(hnsw_) :
                MaxLayerOf(hnsw_, hnsw_.entry_point_id) >= MaxLayerOf(hnsw_, id)

\* C4: no query, for any query vector, k and filter, returns an id that is in
\* the deleted set, that is, an id given to delete_vector since the last
\* rebuild.
C4_DeletedNeverReturned ==
    \A query \in QueryVecs, k \in Ks, filter \in Filters :
        Range(k_nearest_neighbors(hnsw_, query, k, filter))
            \cap hnsw_.deleted_nodes_ = {}

\* a tombstoned node beside live ones that a query returns
C4_Witness ==
    /\ Size(hnsw_) = MaxNodes
    /\ \E id \in 0 .. (Size(hnsw_) - 1) : IsDeleted(hnsw_, id)
    /\ Len(k_nearest_neighbors(hnsw_, <<0>>, MaxNodes, NoFilter)) >= 2
\* seq without the id
Without(seq, id) == SelectSeq(seq, LAMBDA x : x # id)

\* C5: when a query with k >= size() returns every node of an index built by
\* inserts alone, then after delete_vector(id) the same query returns what it
\* returned before, less id.
C5_DeleteRemovesOnlyThatNode ==
    [][(/\ ret'.op = "delete_vector" /\ ret'.status = "ok"
        /\ hnsw_.deleted_nodes_ = {}) =>
          \A query \in QueryVecs, id \in hnsw_'.deleted_nodes_ :
              LET before == k_nearest_neighbors(hnsw_, query, GraphNodes,
                                                NoFilter)
                  after == k_nearest_neighbors(hnsw_', query, GraphNodes,
                                               NoFilter)
              IN  Range(before) = Live(hnsw_) => after = Without(before, id)]_vars
\* the live ids in ascending order, from id i on
RECURSIVE LiveSeq(_, _)
LiveSeq(h, i) ==
    IF i >= Size(h) THEN <<>>
    ELSE IF IsDeleted(h, i) THEN LiveSeq(h, i + 1)
    ELSE <<i>> \o LiveSeq(h, i + 1)

\* C8: after rebuild_index, size() is the number of nodes that were not
\* tombstoned, the deleted set is empty, the k-th survivor in ascending
\* original-id order has id k with its vector and metadata, and no query
\* returns an id beyond the survivors.
C8_RebuildCompacts ==
    [][(ret'.op = "rebuild_index" /\ ret'.status = "ok") =>
          LET survivors == LiveSeq(hnsw_, 0)
          IN  /\ Size(hnsw_') = Len(survivors)
              /\ Len(hnsw_'.vector_storage.vectors_) = Len(survivors)
              /\ Len(hnsw_'.vector_storage.metadata_) = Len(survivors)
              /\ hnsw_'.deleted_nodes_ = {}
              /\ \A k \in 1 .. Len(survivors) :
                    /\ hnsw_'.nodes[k].id = k - 1
                    /\ get_vector(hnsw_', k - 1) = get_vector(hnsw_, survivors[k])
                    /\ get_metadata(hnsw_', k - 1)
                           = get_metadata(hnsw_, survivors[k])
              /\ \A query \in QueryVecs :
                    \A id \in Range(k_nearest_neighbors(hnsw_', query, MaxNodes,
                                                        NoFilter)) :
                        id < Len(survivors)]_vars

\* a rebuilt index of two nodes, the first of which came from an update
C8_Witness ==
    /\ ret.op = "rebuild_index" /\ ret.status = "ok"
    /\ Size(hnsw_) = 2
    /\ get_metadata(hnsw_, 0) = UpdateMeta
    /\ k_nearest_neighbors(hnsw_, <<0>>, MaxNodes, NoFilter) # <<>>

\* C9: update_vector(id, vec) with a vector of the right length returns an
\* id other than id, equal to size() before the call; afterwards id is
\* tombstoned and absent from every query result, and the returned id is
\* live, carries the new metadata and is returned by some query.
C9_UpdateYieldsFreshLiveId ==
    [][(ret'.op = "update_vector" /\ ret'.status = "ok") =>
          /\ ret'.val # ret'.id
          /\ ret'.val = Size(hnsw_)
          /\ IsDeleted(hnsw_', ret'.id)
          /\ \A query \in QueryVecs, k \in Ks, filter \in Filters :
                ret'.id \notin Range(k_nearest_neighbors(hnsw_', query, k, filter))
          /\ ~IsDeleted(hnsw_', ret'.val)
          /\ get_metadata(hnsw_', ret'.val) = UpdateMeta
          /\ \E query \in QueryVecs :
                ret'.val \in Range(k_nearest_neighbors(hnsw_', query, MaxNodes,
                                                       NoFilter))]_vars
\* C6: a read-only Database opened on the file an instance has just saved
\* answers every query (vector, k, filter) with the ids, in order, that the
\* saved instance answers it with.
C6_LoadedAnswersLikeSaved ==
    [][(ret.op = "save" /\ ret.status = "ok" /\ ret'.op = "Database") =>
          \A query \in QueryVecs, k \in Ks, filter \in Filters :
              k_nearest_neighbors(hnsw_', query, k, filter)
                  = k_nearest_neighbors(hnsw_, query, k, filter)]_vars

\* C7: the index load() builds from the file save() has just written has the
\* nodes (ids, max_layers, adjacency lists in order), vectors, metadata,
\* deleted set and parameters of the saved index.
C7_SaveLoadRoundTrip ==
    [][(ret.op = "save" /\ ret.status = "ok"
        /\ ret'.op \in {"Database", "load"}) =>
          /\ hnsw_'.nodes = hnsw_.nodes
          /\ hnsw_'.vector_storage = hnsw_.vector_storage
          /\ hnsw_'.deleted_nodes_ = hnsw_.deleted_nodes_
          /\ hnsw_'.M = hnsw_.M
          /\ hnsw_'.efConstruction = hnsw_.efConstruction
          /\ hnsw_'.efSearch = hnsw_.efSearch
          /\ hnsw_'.distance_metric = hnsw_.distance_metric]_vars

\* a read-only instance just opened on a file that holds linked nodes,
\* metadata, a tombstone and a metric other than the first
C7_Witness ==
    /\ read_only_ /\ ret.op = "Database" /\ file # <<>>
    /\ Size(hnsw_) = MaxNodes
    /\ hnsw_.deleted_nodes_ # {}
    /\ hnsw_.distance_metric = "IP"
    /\ \E i \in 1 .. Size(hnsw_) :
          /\ hnsw_.nodes[i].max_layer = 1
          /\ hnsw_.nodes[i].neighbors[2] # <<>>
          /\ hnsw_.vector_storage.metadata_[i] = MetaA

Mutators == {"insert", "update_vector", "delete_vector", "rebuild_index", "save"}

\* C10: on a read-only Database, insert, update_vector, delete_vector,
\* rebuild_index and save fail with the read-only error and change neither
\* the index nor the file; query succeeds.
C10_ReadOnlyRejectsMutation ==
    [][read_only_ =>
          /\ ret'.op \in Mutators =>
                /\ ret'.status = "read_only"
                /\ hnsw_' = hnsw_ /\ file' = file /\ read_only_'
          /\ ret'.op = "query" =>
                /\ ret'.status = "ok"
                /\ hnsw_' = hnsw_ /\ file' = file /\ read_only_']_vars

\* a delete_vector refused by a read-only instance that holds nodes
C10_Witness ==
    /\ read_only_ /\ ret.op = "delete_vector" /\ ret.status = "read_only"
    /\ Size(hnsw_) >= 2 /\ Live(hnsw_) # {}
\* a file that save() wrote for an instance without a quantizer
SavedWithoutQuantizer == file # <<>> /\ file[1] = 0

\* C11: no call on a read-only instance (train_quantizer and load included)
\* changes its nodes, its storage (vectors, metadata, encoded vectors) or its
\* deleted set.  Stated for the instances opened on a file saved without a
\* quantizer, whose state owes nothing to the floats an untrained quantizer
\* saves.
C11_ReadOnlyNeverMutates ==
    [][(read_only_ /\ SavedWithoutQuantizer /\ ret'.op # "Database") =>
          /\ hnsw_'.nodes = hnsw_.nodes
          /\ hnsw_'.vector_storage = hnsw_.vector_storage
          /\ hnsw_'.deleted_nodes_ = hnsw_.deleted_nodes_]_vars
\* C12: an insert of a vector whose length is not D, on a writable instance,
\* fails with the dimension-mismatch error and leaves the whole index (size,
\* nodes, adjacency, vectors, metadata, encoded vectors, deleted set, entry
\* point) as it was.
C12_FailedInsertChangesNothing ==
    [][(~read_only_ /\ \E l \in QuantizedLayers : Insert(BadVec, MetaA, l)) =>
          /\ ret'.status = "dimension_mismatch"
          /\ hnsw_' = hnsw_
          /\ file' = file]_vars

\* a refused insert into an index that holds encoded vectors and a tombstone
C12_Witness ==
    /\ ret.op = "insert" /\ ret.status = "dimension_mismatch"
    /\ Size(hnsw_) >= 1
    /\ hnsw_.vector_storage.encoded_vectors_ # <<>>
    /\ hnsw_.deleted_nodes_ # {}
\* the filters  meta["type"] == value  tried in every state
TypeFilters == {TypeIs(StrA), TypeIs(StrB)}

\* meta has the type the filter asks for
HasType(meta, filter) ==
    TypeKey \in DOMAIN meta /\ meta[TypeKey] = filter.value

\* C13: every id a filtered query returns, in every index state and for every
\* k, has metadata the filter accepts.
C13_FilteredResultsAccepted ==
    \A query \in QueryVecs, k \in Ks, filter \in TypeFilters :
        \A id \in Range(k_nearest_neighbors(hnsw_, query, k, filter)) :
            HasType(get_metadata(hnsw_, id), filter)

\* live nodes of both types, of which a filtered query returns some but not all
C13_Witness ==
    /\ \E id \in Live(hnsw_) : get_metadata(hnsw_, id) = MetaA
    /\ \E id \in Live(hnsw_) : get_metadata(hnsw_, id) = MetaB
    /\ k_nearest_neighbors(hnsw_, <<0>>, MaxNodes, TypeIs(StrB)) # <<>>
    /\ Len(k_nearest_neighbors(hnsw_, <<0>>, MaxNodes, TypeIs(StrB)))
           < Len(k_nearest_neighbors(hnsw_, <<0>>, MaxNodes, NoFilter))
\* C14: every id in any neighbor list, of any node at any layer, is the id
\* of an existing node: 0 <= id < size().
C14_NeighborsExist ==
    \A i \in 1 .. Size(hnsw_) :
        \A l \in 1 .. Len(hnsw_.nodes[i].neighbors) :
            \A id \in Range(hnsw_.nodes[i].neighbors[l]) :
                id >= 0 /\ id < Size(hnsw_)

\* a rebuilt index, smaller than the one before, whose nodes are linked
C14_Witness ==
    /\ ret.op = "rebuild_index" /\ ret.status = "ok"
    /\ Size(hnsw_) = 2
    /\ hnsw_.nodes[1].neighbors[1] # <<>>
    /\ \E i \in 1 .. 2 : get_metadata(hnsw_, i - 1) = UpdateMeta

\* C15: the storage holds as many vectors as metadata records and as the
\* graph holds nodes, and the i-th node has id i.
C15_StorageMatchesNodes ==
    /\ Len(hnsw_.vector_storage.vectors_) = Size(hnsw_)
    /\ Len(hnsw_.vector_storage.metadata_) = Size(hnsw_)
    /\ \A i \in 1 .. Size(hnsw_) : hnsw_.nodes[i].id = i - 1

\* an index loaded from a file and then appended to
C15_Witness ==
    /\ ~Unsaved /\ ~read_only_
    /\ ret.op = "insert" /\ ret.status = "ok"
    /\ Size(hnsw_) = MaxNodes
    /\ Size(hnsw_) > file[6]

\* C16: whenever the quantizer is attached and trained, there are as many
\* encoded vectors as raw vectors and each encoded vector has length D, so
\* get_encoded_vector finds an encoding for every node id.
C16_EncodedMatchesRaw ==
    Quantizes(hnsw_.sq_) =>
        /\ Len(hnsw_.vector_storage.encoded_vectors_)
               = Len(hnsw_.vector_storage.vectors_)
        /\ \A i \in 1 .. Len(hnsw_.vector_storage.encoded_vectors_) :
               Len(hnsw_.vector_storage.encoded_vectors_[i])
                   = hnsw_.vector_storage.vector_dimension_

\* an insert into a trained index that was loaded from a file and now holds
\* as many encoded vectors as the index takes
C16_Witness ==
    /\ Quantizes(hnsw_.sq_)
    /\ ~Unsaved
    /\ ret.op = "insert" /\ ret.status = "ok"
    /\ Len(hnsw_.vector_storage.encoded_vectors_) = QuantizedNodes
    /\ hnsw_.vector_storage.vectors_[1] # hnsw_.vector_storage.vectors_[2]

\* C17: a load, or the construction of a read-only Database, on a path whose
\* file cannot be opened, and a save whose stream cannot be opened, end in an
\* I/O error.
C17_UnopenableFileIsIoError ==
    [][/\ (ret'.op \in {"load", "Database"} /\ file = <<>>)
            => ret'.status = "io_error"
       /\ (ret'.op = "save" /\ ~read_only_ /\ ret'.val = 0)
            => ret'.status = "io_error"]_vars

\* the distance from query to the stored vector of id, under the index metric
DistanceTo(query, id) ==
    calculate_distance_vec(hnsw_.distance_metric, query, get_vector(hnsw_, id))

\* the nodes the filter accepts: every node when there is no filter
Accepted(filter) ==
    {id \in 0 .. (Size(hnsw_) - 1) :
        filter = NoFilter \/ HasType(get_metadata(hnsw_, id), filter)}

\* C18: in an index built by inserts only, of at most M + 1 nodes, with
\* efConstruction and efSearch no less than the node count, a query for k
\* returns exactly the min(k, n) nodes nearest to the query among the n nodes
\* the filter accepts (all nodes without a filter), nearest first, whenever
\* the distances of those n nodes to the query are pairwise distinct.
C18_SmallIndexIsExact ==
    \A query \in Vecs, k \in 0 .. SmallNodes,
       filter \in {NoFilter} \cup TypeFilters :
        LET res == k_nearest_neighbors(hnsw_, query, k, filter)
            acc == Accepted(filter)
        IN  (\A a, b \in acc :
                a # b => DistanceTo(query, a) # DistanceTo(query, b))
            => /\ Len(res) = Min(k, Cardinality(acc))
               /\ Range(res) \subseteq acc
               /\ \A i, j \in 1 .. Len(res) :
                     i < j => DistanceTo(query, res[i]) < DistanceTo(query, res[j])
               /\ \A id \in acc \ Range(res) : \A r \in Range(res) :
                     DistanceTo(query, r) < DistanceTo(query, id)

\* a queried full index of pairwise distinct vectors under IP, whose entry
\* point holds a vector other than <<0>> and is not accepted by the filter
\* type == StrA, which accepts some other node
C18_Witness ==
    /\ Size(hnsw_) = SmallNodes
    /\ \A a, b \in 0 .. (Size(hnsw_) - 1) :
          a # b => get_vector(hnsw_, a) # get_vector(hnsw_, b)
    /\ ret.op = "query" /\ ret.val # <<>>
    /\ hnsw_.entry_point_id \notin Accepted(TypeIs(StrA))
    /\ Accepted(TypeIs(StrA)) # {}
    /\ get_vector(hnsw_, hnsw_.entry_point_id) # <<0>>
    /\ hnsw_.distance_metric = "IP"

\* the ids reached at layer 0 from the ids of S along neighbor lists, through
\* tombstoned and live nodes alike
RECURSIVE Reach(_)
Reach(S) ==
    LET T == S \cup UNION {Range(hnsw_.nodes[id + 1].neighbors[1]) : id \in S}
    IN  IF T = S THEN S ELSE Reach(T)

\* C19: tombstoned nodes are traversal hops.  A query with room for every
\* node returns every live node connected to its layer-0 starting node
\* through any nodes, tombstoned ones included, and returns no tombstoned
\* node.
C19_TombstonesAreHops ==
    hnsw_.entry_point_id # -1 =>
        LET res == k_nearest_neighbors(hnsw_, <<0>>, GraphNodes, NoFilter)
            start == QueryDescend(hnsw_, <<0>>, hnsw_.entry_point_id,
                         hnsw_.nodes[hnsw_.entry_point_id + 1].max_layer,
                         NoFilter)
        IN  /\ Range(res) \cap hnsw_.deleted_nodes_ = {}
            /\ \A id \in Reach({start}) :
                  ~IsDeleted(hnsw_, id) => id \in Range(res)

\* ids holds no id twice and is ordered by non-decreasing distance to query
DistinctAscending(query, ids) ==
    \A i, j \in 1 .. Len(ids) :
        i < j => /\ ids[i] # ids[j]
                 /\ calculate_distance(hnsw_, query, ids[i])
                        <= calculate_distance(hnsw_, query, ids[j])

\* C20: a query for k >= 0 returns at most k ids, pairwise distinct and in
\* order of non-decreasing distance to the query; search_layer, from any
\* node at any of its layers and for any ef >= 1, returns at most ef ids,
\* pairwise distinct and in order of non-decreasing distance.
C20_ResultsBoundedDistinctAscending ==
    \A query \in QueryVecs, filter \in Filters :
        /\ \A k \in 0 .. MaxNodes :
              LET res == k_nearest_neighbors(hnsw_, query, k, filter)
              IN  Len(res) <= k /\ DistinctAscending(query, res)
        /\ \A entry \in 0 .. (Size(hnsw_) - 1), ef \in 1 .. MaxNodes :
              \A layer \in 0 .. hnsw_.nodes[entry + 1].max_layer :
                  LET ids == search_layer(hnsw_, query, entry, ef, layer, filter)
                  IN  Len(ids) <= ef /\ DistinctAscending(query, ids)

\* a full live index on which a query for every node returns them all, the
\* last further than the first, a query for two returns two, and
\* search_layer with ef = 1 cuts its result queue back to one id
C20_Witness ==
    /\ Size(hnsw_) = MaxNodes /\ hnsw_.deleted_nodes_ = {}
    /\ LET res == k_nearest_neighbors(hnsw_, <<0>>, MaxNodes, NoFilter)
       IN  /\ Len(res) = MaxNodes
           /\ calculate_distance(hnsw_, <<0>>, res[1])
                  < calculate_distance(hnsw_, <<0>>, res[MaxNodes])
    /\ Len(k_nearest_neighbors(hnsw_, <<0>>, 2, NoFilter)) = 2
    /\ Len(search_layer(hnsw_, <<0>>, hnsw_.entry_point_id, 1, 0, NoFilter)) = 1

\* C21: a query with a vector whose length is not D ends in the
\* dimension-mismatch error, as insert and update_vector do (stated here for
\* a query on an index that has nodes to measure the vector against).
C21_QueryChecksDimension ==
    [][(/\ hnsw_.entry_point_id # -1
        /\ \E filter \in Filters : Query(ShortVec, 1, filter))
          => ret'.status = "dimension_mismatch"]_vars

\* list is grown less exactly one entry, one at maximal distance from the
\* vector of node n
EvictsFurthest(h, n, grown, list) ==
    \E i \in 1 .. Len(grown) :
        /\ list = EraseAt(grown, i - 1)
        /\ \A j \in 1 .. Len(grown) :
              calculate_distance(h, get_vector(h, n), grown[j])
                  <= calculate_distance(h, get_vector(h, n), grown[i])

\* C22: when an insert links the new node into the list of neighbor n at a
\* layer and the list thereby grows longer than M, the list is left with
\* exactly one entry evicted, an entry at maximal distance from n's own
\* vector, under every metric.
C22_PruningEvictsFurthest ==
    [][(ret'.op = "insert" /\ ret'.status = "ok") =>
        LET v == ret'.val IN
        \A l \in 1 .. Len(hnsw_'.nodes[v + 1].neighbors) :
            \A n \in Range(hnsw_'.nodes[v + 1].neighbors[l]) :
                LET grown == Append(hnsw_.nodes[n + 1].neighbors[l], v)
                IN  Len(grown) > hnsw_.M =>
                        EvictsFurthest(hnsw_', n, grown,
                                       hnsw_'.nodes[n + 1].neighbors[l])]_vars

RECURSIVE ReachThrough(_, _)
ReachThrough(S, hops) ==
    LET T == S \cup UNION {Range(hnsw_.nodes[id + 1].neighbors[1]) :
                              id \in S \cap hops}
    IN  IF T = S THEN S ELSE ReachThrough(T, hops)

\* the node the layer-0 search of a query starts from
StartOf(query, filter) ==
    QueryDescend(hnsw_, query, hnsw_.entry_point_id,
                 hnsw_.nodes[hnsw_.entry_point_id + 1].max_layer, filter)

\* C24: a filter restricts the results, not the traversal.  With ef no less
\* than the node count, a query returns every live node the filter accepts
\* that is connected at layer 0 to the node the search starts from through
\* live nodes, whether the filter accepts those (and the starting node) or
\* not.
C24_FilterDoesNotCutTraversal ==
    hnsw_.entry_point_id # -1 =>
        \A query \in QueryVecs, filter \in TypeFilters :
            LET res == Range(k_nearest_neighbors(hnsw_, query, GraphNodes,
                                                 filter))
            IN  \A id \in ReachThrough({StartOf(query, filter)}, Live(hnsw_)) :
                    (id \in Live(hnsw_) /\ id \in Accepted(filter))
                        => id \in res

\* a filtered query has returned a node that neither the starting node nor
\* any accepted live node leads to: every path to it passes a rejected node
C24_Witness ==
    /\ ret.op = "query"
    /\ hnsw_.entry_point_id # -1
    /\ hnsw_.deleted_nodes_ # {}
    /\ \E id \in Range(ret.val) :
          id \notin ReachThrough({StartOf(<<0>>, TypeIs(StrA))},
                                 {StartOf(<<0>>, TypeIs(StrA))}
                                     \cup (Live(hnsw_) \cap Accepted(TypeIs(StrA))))

\* C25: in an index built by inserts only, after every insert the entry point
\* is the node of the lowest id among the nodes of the greatest max_layer;
\* the first insert makes its node the entry point, and a later insert moves
\* the entry point, to the new node, only when the layer drawn for it is
\* strictly greater than the max_layer of the entry point.
C25_EntryPointIsFirstTopNode ==
    [][(ret'.op = "insert" /\ ret'.status = "ok") =>
        LET ep == hnsw_'.entry_point_id
            ids == 0 .. (Size(hnsw_') - 1)
        IN  /\ ep \in ids
            /\ \A id \in ids :
                  \/ MaxLayerOf(hnsw_', id) < MaxLayerOf(hnsw_', ep)
                  \/ (MaxLayerOf(hnsw_', id) = MaxLayerOf(hnsw_', ep) /\ ep <= id)
            /\ hnsw_.entry_point_id = -1 => ep = 0
            /\ (hnsw_.entry_point_id # -1 /\ ep # hnsw_.entry_point_id) =>
                  /\ ep = ret'.val
                  /\ MaxLayerOf(hnsw_', ep)
                        > MaxLayerOf(hnsw_, hnsw_.entry_point_id)
            /\ (hnsw_.entry_point_id # -1 /\ ep = hnsw_.entry_point_id) =>
                  MaxLayerOf(hnsw_', ret'.val)
                      <= MaxLayerOf(hnsw_, hnsw_.entry_point_id)]_vars

\* a third insert at the top layer into an index whose entry point is the
\* second node, the first of the two top-layer nodes
C25_Witness ==
    /\ ret.op = "insert" /\ ret.status = "ok" /\ ret.val = 2
    /\ hnsw_.entry_point_id = 1
    /\ MaxLayerOf(hnsw_, 0) = 0
    /\ MaxLayerOf(hnsw_, 2) = MaxLayer

\* C26: when the index has nodes and every one of them is tombstoned, the
\* entry point is none and every query returns the empty list; an insert in
\* that state makes the new node the entry point, with empty neighbor lists,
\* and the queries that follow return the new node and none of the
\* tombstoned ones.
C26_InsertAfterAllDeleted ==
    [][(Size(hnsw_) > 0 /\ Live(hnsw_) = {}) =>
        /\ hnsw_.entry_point_id = -1
        /\ \A query \in QueryVecs, k \in Ks :
              k_nearest_neighbors(hnsw_, query, k, NoFilter) = <<>>
        /\ (ret'.op = "insert" /\ ret'.status = "ok") =>
              /\ hnsw_'.entry_point_id = ret'.val
              /\ \A l \in 1 .. Len(hnsw_'.nodes[ret'.val + 1].neighbors) :
                    hnsw_'.nodes[ret'.val + 1].neighbors[l] = <<>>
              /\ \A query \in QueryVecs, k \in Ks :
                    k_nearest_neighbors(hnsw_', query, k, NoFilter)
                        = <<ret'.val>>]_vars

\* 255 times each component of a vector
RECURSIVE Times255(_)
Times255(vec) ==
    IF vec = <<>> THEN <<>> ELSE <<255 * Head(vec)>> \o Times255(Tail(vec))

\* the distance the index is to evaluate between query and stored node id in
\* index h: with a trained quantizer the squared L2 distance to the decoded
\* stored vector (in the model's unit, 255 * 255 times the float), and
\* otherwise the declared metric on the raw vector
ExpectedDistance(h, query, id) ==
    IF h.sq_.attached /\ h.sq_.mins_ # <<>>
    THEN calculate_l2_distance(Times255(query),
                               decode255(h.sq_, h.vector_storage.encoded_vectors_[id + 1]))
    ELSE CASE h.distance_metric = "L2" ->
                  calculate_l2_distance(query, h.vector_storage.vectors_[id + 1])
           [] h.distance_metric = "COSINE" ->
                  calculate_cosine_distance(query, h.vector_storage.vectors_[id + 1])
           [] h.distance_metric = "IP" ->
                  calculate_inner_product_distance(query, h.vector_storage.vectors_[id + 1])

\* C27: with a trained quantizer attached, the distance the index evaluates
\* between a float vector and a stored node, the one search_layer and the
\* pruning of insert use and the one a result's distance field reports, is
\* the squared L2 distance to the decoded stored vector under every declared
\* metric; with no quantizer or an untrained one it is the declared metric
\* on the raw vector.
C27_QuantizedDistanceIsSquaredL2 ==
    [][/\ \A query \in Vecs, id \in 0 .. (Size(hnsw_') - 1) :
            calculate_distance(hnsw_', query, id)
                = ExpectedDistance(hnsw_', query, id)
       /\ (ret'.op = "query" /\ "DISTANCE" \in ret'.val.include) =>
            \A i \in 1 .. Len(ret'.val.results) :
                ret'.val.results[i].distance
                    = ExpectedDistance(hnsw_, ret'.val.query,
                                       ret'.val.results[i].id)]_vars

\* a query on an index declared with IP, quantizer trained, has reported a
\* distance that the inner product would not give
C27_Witness ==
    /\ ret.op = "query" /\ "DISTANCE" \in ret.val.include
    /\ hnsw_.distance_metric = "IP"
    /\ Quantizes(hnsw_.sq_)
    /\ Len(ret.val.results) = QuantizedNodes
    /\ \E i \in 1 .. Len(ret.val.results) :
          ret.val.results[i].distance
              # calculate_distance_vec("IP", ret.val.query,
                                       get_vector(hnsw_, ret.val.results[i].id))

\* C28: every result of a query carries its id; its distance, metadata and
\* vector are the stored values of that id when the include set names them,
\* and otherwise zero, the empty metadata and the empty vector.
C28_ResultsCarryIncludedFields ==
    [][ret'.op = "query" =>
        \A i \in 1 .. Len(ret'.val.results) :
            LET r == ret'.val.results[i]
                include == ret'.val.include
            IN  /\ r.id \in Live(hnsw_)
                /\ r.distance = IF "DISTANCE" \in include
                                THEN calculate_distance(hnsw_, ret'.val.query, r.id)
                                ELSE 0
                /\ r.metadata = IF "METADATA" \in include
                                THEN get_metadata(hnsw_, r.id) ELSE EmptyMeta
                /\ r.vector = IF "VECTOR" \in include
                              THEN get_vector(hnsw_, r.id) ELSE <<>>]_vars

\* the d-th components of the vectors stored in h, tombstoned ones included
ComponentsOf(h, d) ==
    {h.vector_storage.vectors_[i][d] : i \in 1 .. Len(h.vector_storage.vectors_)}

\* C29: train_quantizer changes nothing when no quantizer is attached.  With
\* a quantizer and a non-empty index it sets mins_ and maxs_ to the least and
\* greatest component, per dimension, over every stored vector, tombstoned
\* ones included, and leaves every stored vector with its encoding under the
\* new bounds.  It never changes the nodes, their neighbor lists, the deleted
\* set, the entry point, the vectors or the metadata.
C29_TrainSetsBoundsAndEncodes ==
    [][ret'.op = "train_quantizer" =>
        /\ hnsw_'.nodes = hnsw_.nodes
        /\ hnsw_'.deleted_nodes_ = hnsw_.deleted_nodes_
        /\ hnsw_'.entry_point_id = hnsw_.entry_point_id
        /\ hnsw_'.vector_storage.vectors_ = hnsw_.vector_storage.vectors_
        /\ hnsw_'.vector_storage.metadata_ = hnsw_.vector_storage.metadata_
        /\ ~hnsw_.sq_.attached => hnsw_' = hnsw_
        /\ (hnsw_.sq_.attached /\ Size(hnsw_) > 0) =>
              /\ Len(hnsw_'.sq_.mins_) = hnsw_.vector_storage.vector_dimension_
              /\ Len(hnsw_'.sq_.maxs_) = hnsw_.vector_storage.vector_dimension_
              /\ \A d \in 1 .. hnsw_.vector_storage.vector_dimension_ :
                    /\ hnsw_'.sq_.mins_[d] \in ComponentsOf(hnsw_, d)
                    /\ hnsw_'.sq_.maxs_[d] \in ComponentsOf(hnsw_, d)
                    /\ \A x \in ComponentsOf(hnsw_, d) :
                          hnsw_'.sq_.mins_[d] <= x /\ x <= hnsw_'.sq_.maxs_[d]
              /\ Len(hnsw_'.vector_storage.encoded_vectors_) = Size(hnsw_)
              /\ \A i \in 1 .. Size(hnsw_) :
                    hnsw_'.vector_storage.encoded_vectors_[i]
                        = encode(hnsw_'.sq_, hnsw_.vector_storage.vectors_[i])]_vars

\* a training on an index whose greatest component is that of a tombstoned
\* vector and of no live one
C29_Witness ==
    /\ ret.op = "train_quantizer"
    /\ Quantizes(hnsw_.sq_)
    /\ Live(hnsw_) # {}
    /\ \E id \in hnsw_.deleted_nodes_ :
          get_vector(hnsw_, id)[1] = hnsw_.sq_.maxs_[1]
    /\ \A id \in Live(hnsw_) : get_vector(hnsw_, id)[1] < hnsw_.sq_.maxs_[1]

\* C30: an update_vector of a live node that is refused because the new
\* vector's length is not D leaves the index as it was: the node is not
\* tombstoned, the entry point is the same, and queries return what they
\* returned, the node included.
C30_FailedUpdateChangesNothing ==
    [][(/\ ret'.op = "update_vector"
        /\ ret'.status = "dimension_mismatch"
        /\ ret'.id \in Live(hnsw_)) =>
          /\ ~IsDeleted(hnsw_', ret'.id)
          /\ hnsw_'.deleted_nodes_ = hnsw_.deleted_nodes_
          /\ hnsw_'.entry_point_id = hnsw_.entry_point_id
          /\ \A query \in QueryVecs, k \in Ks :
                k_nearest_neighbors(hnsw_', query, k, NoFilter)
                    = k_nearest_neighbors(hnsw_, query, k, NoFilter)]_vars

\* C31: every id in the deleted set names an existing node, and the id an
\* insert returns is not tombstoned when the insert returns, so that a query
\* with room for every node can return it.
C31_TombstonesNameNodes ==
    /\ \A id \in hnsw_.deleted_nodes_ : id >= 0 /\ id < Size(hnsw_)
    /\ (ret.op = "insert" /\ ret.status = "ok") => ~IsDeleted(hnsw_, ret.val)

\* C32: load() of the file save() has just written, on the saving instance or
\* on a new read-only one, leaves the entry point the node it was when the
\* index was saved, hence not a tombstoned node.
C32_LoadKeepsEntryPoint ==
    [][(ret.op = "save" /\ ret.status = "ok" /\ ret.val = 1
        /\ ret'.op \in {"Database", "load"}) =>
          /\ hnsw_'.entry_point_id = hnsw_.entry_point_id
          /\ ~IsDeleted(hnsw_', hnsw_'.entry_point_id)]_vars

\* the ids reached from the ids of S along the neighbor lists of layer l
RECURSIVE ReachAt(_, _)
ReachAt(S, l) ==
    LET T == S \cup UNION {Range(hnsw_.nodes[id + 1].neighbors[l + 1]) : id \in S}
    IN  IF T = S THEN S ELSE ReachAt(T, l)

\* the nodes a descent that enters layer `from` at the ids of S can start a
\* search from, or expand, at layer l <= from: what it reaches at each layer
\* is where it may enter the layer below
RECURSIVE Searched(_, _, _)
Searched(S, from, l) ==
    IF from = l THEN ReachAt(S, l)
    ELSE Searched(ReachAt(S, from), from - 1, l)

\* every node has one neighbor list per layer 0..max_layer, and the ids in
\* its list of layer l name existing nodes that have a layer l
AdjacencyWithinLayers ==
    \A i \in 1 .. Size(hnsw_) :
        /\ Len(hnsw_.nodes[i].neighbors) = hnsw_.nodes[i].max_layer + 1
        /\ \A l \in 0 .. hnsw_.nodes[i].max_layer :
               \A m \in Range(hnsw_.nodes[i].neighbors[l + 1]) :
                   /\ m >= 0 /\ m < Size(hnsw_)
                   /\ MaxLayerOf(hnsw_, m) >= l

\* C33: layer consistency.  Every id listed in a neighbor list of layer l
\* names a node whose max_layer is at least l, and every node a search can
\* start from or expand at layer l, descending from the entry point at the
\* entry point's top layer as insert and k_nearest_neighbors do, has
\* max_layer at least l: no neighbor list is indexed that does not exist.
C33_LayerConsistency ==
    /\ AdjacencyWithinLayers
    /\ hnsw_.entry_point_id # -1 =>
          /\ hnsw_.entry_point_id >= 0 /\ hnsw_.entry_point_id < Size(hnsw_)
          /\ LET top == MaxLayerOf(hnsw_, hnsw_.entry_point_id)
             IN  \A l \in 0 .. top :
                     \A id \in Searched({hnsw_.entry_point_id}, top, l) :
                         MaxLayerOf(hnsw_, id) >= l

\* a loaded index in which nodes are linked above layer 0 and the entry point
\* is a node of layer 0 linked to a node of a higher layer
C33_Witness ==
    /\ ret.op = "load"
    /\ \E i \in 1 .. Size(hnsw_) :
          /\ hnsw_.nodes[i].max_layer >= 1
          /\ hnsw_.nodes[i].neighbors[2] # <<>>
    /\ hnsw_.entry_point_id # -1
    /\ MaxLayerOf(hnsw_, hnsw_.entry_point_id) = 0
    /\ \E m \in Range(hnsw_.nodes[hnsw_.entry_point_id + 1].neighbors[1]) :
          MaxLayerOf(hnsw_, m) >= 1

\* C34: load() of the file save() has just written, on the saving instance or
\* on a new read-only one, leaves the quantizer as trained as it was saved:
\* an attached, untrained quantizer loads untrained, and a trained one loads
\* with the mins and maxs it was saved with.
C34_LoadKeepsQuantizerTraining ==
    [][(ret.op = "save" /\ ret.status = "ok" /\ ret.val = 1
        /\ hnsw_.sq_.attached /\ ret'.op \in {"Database", "load"}) =>
          /\ is_trained(hnsw_'.sq_) = is_trained(hnsw_.sq_)
          /\ is_trained(hnsw_.sq_) =>
                /\ hnsw_'.sq_.mins_ = hnsw_.sq_.mins_
                /\ hnsw_'.sq_.maxs_ = hnsw_.sq_.maxs_]_vars

\* no id occurs twice in the sequence
NoRepeats(seq) == \A i, j \in 1 .. Len(seq) : seq[i] = seq[j] => i = j

\* a running or finished search has queued no node twice, only nodes it had
\* marked visited, and has entered its loop body at most size() times
SearchIsBounded ==
    ret.op = "search_layer" =>
        /\ NoRepeats(ret.val.st.queued)
        /\ Range(ret.val.st.queued) \subseteq ret.val.st.visited
        /\ ret.val.st.iterations <= Len(ret.val.st.queued)
        /\ ret.val.st.iterations <= Size(hnsw_)

\* C35: search_layer terminates on every graph, with cycles and one-way
\* edges: a search that has begun returns, having queued each node at most
\* once and run its loop body at most size() times.
C35_SearchLayerTerminates ==
    /\ []SearchIsBounded
    /\ Searching ~> (ret.op = "search_layer" /\ ret.status = "done")

\* a search that has returned after as many iterations as there are nodes,
\* on a graph with a tombstoned node and an edge that leads one way only
C35_Witness ==
    /\ ret.op = "search_layer" /\ ret.status = "done"
    /\ ret.val.st.iterations = Cardinality(Live(hnsw_))
    /\ ret.val.st.iterations >= MaxNodes
    /\ hnsw_.deleted_nodes_ # {}
    /\ \E i, j \in 1 .. Size(hnsw_) :
          /\ (j - 1) \in Range(hnsw_.nodes[i].neighbors[1])
          /\ (i - 1) \notin Range(hnsw_.nodes[j].neighbors[1])

\* C36: no neighbor list, of any node at any layer, holds its own node's id
\* or holds an id twice.
C36_NoSelfLoopsNoDuplicates ==
    \A i \in 1 .. Size(hnsw_) :
        \A l \in 1 .. Len(hnsw_.nodes[i].neighbors) :
            /\ (i - 1) \notin Range(hnsw_.nodes[i].neighbors[l])
            /\ NoRepeats(hnsw_.nodes[i].neighbors[l])

\* a rebuilt index in which a node's layer-0 list is full and a node is
\* linked above layer 0
C36_Witness ==
    /\ ret.op = "rebuild_index" /\ ret.status = "ok"
    /\ \E i \in 1 .. Size(hnsw_) : Len(hnsw_.nodes[i].neighbors[1]) = hnsw_.M
    /\ \E i \in 1 .. Size(hnsw_) :
          /\ hnsw_.nodes[i].max_layer >= 1
          /\ hnsw_.nodes[i].neighbors[2] # <<>>

====
